---- MODULE Spec2Model ----
(***************************************************************************)
(* State-machine model of the DataFlow web client: the API helpers, the    *)
(* chat panel, the processing form and the preview page, together with the *)
(* backend boundary they talk to.                                          *)
(***************************************************************************)
EXTENDS Integers, Sequences, FiniteSets, TLC

(***************************************************************************)
(* Bounds of the model                                                     *)
(***************************************************************************)
MaxRequests == 2
MaxMessages == 3
MaxNewFiles == 2
MaxFetches == 2
MaxLists == 2
MaxAsks == 2
MaxDeletes == 2

(***************************************************************************)
(* Values                                                                  *)
(***************************************************************************)
Users == {"alice", "bob"}
NoUser == "nobody"
FileIds == {"f1", "f2", "f3"}
NoFile == "nofile"
NoHeader == <<>>
None == [none |-> TRUE]
\* texts are sequences of characters; "" is <<>>
Inputs == {<<>>, <<" ">>, <<" ", "q">>}
Answers == {<<>>, <<"a">>}
Details == {<<>>, <<"d">>}
Tabs == {"tab1", "tab2"}
PreviewClient == "preview"
Clients == Tabs \cup {PreviewClient}
DownloadPages == {"preview", "history"}
NoError == "noerror"
NoUpload == <<"upload", "none">>
NoAlert == "noalert"
Undefined == "undefined"
FreshIds == <<"g1", "g2", "g3", "g4", "g5", "g6">>

VARIABLES
    authUser,        \* firebase auth.currentUser
    requests,        \* HTTP requests issued by the client so far
    lsUser,          \* localStorage 'user'
    lsSelectedFile,  \* localStorage 'selectedFile'
    lsChatMessages,  \* localStorage 'chatMessages'
    route,           \* the route the router shows
    chatUrl,         \* file_id parameter of the /chat URL
    isReload,        \* navigation type of the document is "reload"
    store,           \* backend record store: file_id -> ProcessedFile
    nextId,          \* backend: number of the next file id to hand out
    serverUpload,    \* backend: the file POST /upload stored last
    formUser,        \* DataProcessingForm, per browser tab: signed-in user
    numberOfRelations,
    isProcessing,
    formPc,          \* where handleSubmit stands
    formClosure,     \* token and form values handleSubmit captured
    requireDashboard,
    formAlert,       \* the last alert() shown
    navigatedTo,     \* file_id of the preview the form navigated to
    net,             \* per client: its upload/process-data request in flight
    pvFileId,        \* Preview: file_id of the URL ("" when absent)
    pvContent,       \* Preview: data, pivotTables, hasDashboard as last set
    pvLoading,
    pvError,
    pvActiveTab,
    pvPage,
    pvFetches,       \* Preview: get-processed-data requests in flight
    pvBack,          \* preview URLs below the current one in the browser history
    pvAlert,         \* Preview: the last alert() shown
    relInfo,         \* window.__pivot_relations_info
    messages,        \* ChatPanel state
    inputText,
    isLoading,
    showFileList,
    processedFiles,
    selectedFile,
    pendingSelect,   \* handleFileSelectFromId awaiting the listing
    asks,            \* ask requests in flight, with their responses
    historyFiles,    \* ChatHistory: `files`, the list the page displays
    loading,         \* ChatHistory: the loading flag
    listOutcome,     \* what getUserProcessedFiles handed to fetchFiles last
    listing,         \* ChatHistory: the list request in flight
    deletes,         \* ChatHistory: delete requests in flight
    historyAlert,    \* ChatHistory: the last alert() shown
    confirmAnswer,   \* what the user answered to the last window.confirm
    recentFiles,     \* Sidebar: the recent files it displays
    recentOutcome,   \* what getRecentFiles handed to the sidebar last
    fuFile,          \* FileUpload: its `uploadedFile` state
    handedFile,      \* the file FileUpload passed to onFileUpload last
    fuUpload,        \* FileUpload: its POST /upload in flight
    fuAlert,         \* FileUpload: the last alert() shown
    download,        \* per page: its download request in flight
    savedFiles,      \* what the browser saved through a download link
    downloadDisabled, \* Preview: the disabled attribute of #download-btn
    authCall         \* the auth helper called last, with what it settled to

apiVars == <<authUser, requests>>
browserVars == <<lsUser, lsSelectedFile, lsChatMessages, route, chatUrl, isReload>>
backendVars == <<store, nextId, serverUpload>>
formVars == <<formUser, numberOfRelations, requireDashboard, isProcessing, formPc,
              formClosure, formAlert, navigatedTo>>
previewVars == <<pvFileId, pvContent, pvLoading, pvError, pvActiveTab, pvPage,
                 pvFetches, pvBack, pvAlert, relInfo>>
panelVars == <<messages, inputText, isLoading, showFileList, processedFiles,
               selectedFile, pendingSelect, asks>>
chatVars == <<browserVars, panelVars>>
historyVars == <<historyFiles, loading, listOutcome, listing, deletes, historyAlert>>
sidebarVars == <<recentFiles, recentOutcome>>
loginVars == <<authCall>>
uploadVars == <<fuFile, handedFile, fuUpload, fuAlert>>
downloadVars == <<download, savedFiles, downloadDisabled>>
widgetVars == <<uploadVars, downloadVars>>
pageVars == <<historyVars, sidebarVars, loginVars, widgetVars>>
nonApiVars == <<chatVars, backendVars, formVars, previewVars, net, pageVars,
                confirmAnswer>>
\* what the chat panel and the router never touch
formSide == <<nextId, serverUpload, formVars, net, pageVars, confirmAnswer>>
chatFrame == <<formSide, previewVars>>
\* the same without the answer to window.confirm, for the handlers that ask
askingFrame == <<nextId, serverUpload, formVars, net, pageVars, previewVars>>
vars == <<apiVars, chatVars, backendVars, formVars, previewVars, net, pageVars,
          confirmAnswer>>

(***************************************************************************)
(* firebase/auth.ts                                                        *)
(***************************************************************************)
\* getCurrentUserToken: the ID token of auth.currentUser, or null
NoToken == "null"
getCurrentUserToken == IF authUser # NoUser THEN <<"idtoken", authUser>> ELSE NoToken

\* the Authorization header the helpers build from a token
Bearer(token) == <<"Bearer", token>>

\* a request as it leaves the browser
Request(kind, from, auth, file, body) ==
    [kind |-> kind, from |-> from, auth |-> auth, file |-> file, body |-> body]

\* fetch / axios.post: the request is put on the wire
Fetch(kind, from, auth, file, body) ==
    /\ Cardinality(requests) < MaxRequests
    /\ requests' = requests \cup {Request(kind, from, auth, file, body)}

\* the `if (!token) throw` guard the helpers share: with a token the request
\* is sent with the bearer header, without one nothing is sent
WithToken(kind, from, file) ==
    IF getCurrentUserToken # NoToken
    THEN Fetch(kind, from, Bearer(getCurrentUserToken), file, <<>>)
    ELSE UNCHANGED requests

\* String.prototype.trim on a sequence of characters
RECURSIVE TrimStart(_)
TrimStart(t) ==
    IF t # <<>> /\ Head(t) = " " THEN TrimStart(Tail(t)) ELSE t

RECURSIVE TrimEnd(_)
TrimEnd(t) ==
    IF t # <<>> /\ t[Len(t)] = " " THEN TrimEnd(SubSeq(t, 1, Len(t) - 1)) ELSE t

Trim(t) == TrimEnd(TrimStart(t))

\* JavaScript `a || b` on strings: the empty string is falsy
OrElse(a, b) == IF a # <<>> THEN a ELSE b

(***************************************************************************)
(* Backend boundary: record store keyed by file_id, owned by one user      *)
(***************************************************************************)
Stored == DOMAIN store

\* GET /user-files for the bearer of `u`
Listing(u) == {f \in Stored : store[f].owner = u}

\* DELETE /delete-file/{f}
StoreWithout(f) == [g \in Stored \ {f} |-> store[g]]

\* a ProcessedFile as the record store keeps it
ProcessedFile(owner, source, requested, generated, rows, dash) ==
    [owner |-> owner, source |-> source, requested |-> requested,
     generated |-> generated, rows |-> rows, has_dashboard |-> dash]

\* files processed before the model starts: alice's f1 (5 relations requested,
\* 1 generated) and f3 (3 requested, none generated), and bob's f2
InitialStore ==
    [f \in FileIds |->
        IF f = "f1" THEN ProcessedFile("alice", <<"upload", "f1">>, 5, 1, 30, TRUE)
        ELSE IF f = "f2" THEN ProcessedFile("bob", <<"upload", "f2">>, 1, 1, 2, FALSE)
        ELSE ProcessedFile("alice", <<"upload", "f3">>, 3, 0, 1, TRUE)]

\* what the preview holds before any response: data [], pivotTables [], no dashboard
EmptyContent == [of |-> NoFile, rows |-> 0, pivots |-> 0, has_dashboard |-> FALSE]

Init ==
    /\ authUser = NoUser
    /\ requests = {}
    /\ lsUser = NoUser
    /\ lsSelectedFile = None
    /\ lsChatMessages = <<>>
    /\ route = "login"
    /\ chatUrl = NoFile
    /\ isReload = FALSE
    /\ store = InitialStore
    /\ nextId = 1
    /\ serverUpload = NoUpload
    /\ formUser = [t \in Tabs |-> IF t = "tab1" THEN "alice" ELSE "bob"]
    /\ numberOfRelations = [t \in Tabs |-> 1]
    /\ isProcessing = [t \in Tabs |-> FALSE]
    /\ formPc = [t \in Tabs |-> "idle"]
    /\ formClosure = [t \in Tabs |-> None]
    /\ net = [c \in Clients |-> None]
    /\ requireDashboard = [t \in Tabs |-> TRUE]
    /\ formAlert = [t \in Tabs |-> NoAlert]
    /\ navigatedTo = [t \in Tabs |-> NoFile]
    /\ pvFileId = ""
    /\ pvContent = EmptyContent
    /\ pvLoading = FALSE
    /\ pvError = NoError
    /\ pvActiveTab = "cleaned"
    /\ pvPage = 0
    /\ pvFetches = {}
    /\ pvBack = <<>>
    /\ pvAlert = NoAlert
    /\ relInfo = None
    /\ messages = <<>>
    /\ inputText = <<>>
    /\ isLoading = FALSE
    /\ showFileList = FALSE
    /\ processedFiles = {}
    /\ selectedFile = None
    /\ pendingSelect = None
    /\ asks = {}
    /\ historyFiles = {}
    /\ loading = FALSE
    /\ listOutcome = None
    /\ listing = <<>>
    /\ deletes = {}
    /\ historyAlert = NoAlert
    /\ confirmAnswer = None
    /\ recentFiles = {}
    /\ recentOutcome = None
    /\ fuFile = None
    /\ handedFile = None
    /\ fuUpload = None
    /\ fuAlert = NoAlert
    /\ download = [c \in DownloadPages |-> None]
    /\ savedFiles = {}
    /\ downloadDisabled = FALSE
    /\ authCall = None

(***************************************************************************)
(* Sign-in and sign-out as seen by the helpers                             *)
(***************************************************************************)
ApiSignIn(u) ==
    /\ authUser = NoUser
    /\ authUser' = u
    /\ UNCHANGED <<requests, nonApiVars>>

ApiSignOut ==
    /\ authUser # NoUser
    /\ authUser' = NoUser
    /\ UNCHANGED <<requests, nonApiVars>>

(***************************************************************************)
(* firebase/auth.ts: signUp, signIn, signInWithGoogle, signInWithGitHub    *)
(* and signOutUser                                                         *)
(***************************************************************************)
PopupClosed == "auth/popup-closed-by-user"
PopupBlocked == "auth/popup-blocked"
ErrorCodes == {PopupClosed, PopupBlocked, "auth/network-request-failed"}
ErrorMessages == {Undefined, "Firebase: Error"}

\* what the call of the Firebase SDK inside a helper does: it resolves, the
\* sign-ins with a user, or it rejects with an error that carries a code
\* and possibly a message
Resolved(u) == [resolved |-> TRUE, user |-> u, code |-> "", message |-> Undefined]
Rejected(code, message) ==
    [resolved |-> FALSE, user |-> NoUser, code |-> code, message |-> message]
Rejections == {Rejected(c, m) : c \in ErrorCodes, m \in ErrorMessages}
SignInOutcomes == {Resolved(u) : u \in Users} \cup Rejections
SignOutOutcomes == {Resolved(NoUser)} \cup Rejections

\* a plausible slip: the message is passed on without a fallback
OrDefaultMissing(v, d) == v

\* `v ?? d`
OrDefault(v, d) == IF v = Undefined THEN d ELSE v

\* the two shapes of AuthResult, as the value of a promise that settled
AuthSuccess(u) == [rejected |-> FALSE, success |-> TRUE, user |-> u, error |-> Undefined]
AuthFailure(error) ==
    [rejected |-> FALSE, success |-> FALSE, user |-> NoUser, error |-> error]

signUp(o) ==
    IF o.resolved THEN AuthSuccess(o.user)
    ELSE AuthFailure(OrDefault(o.message, "Sign up failed"))

signIn(o) ==
    IF o.resolved THEN AuthSuccess(o.user)
    ELSE AuthFailure(OrDefault(o.message, "Sign in failed"))

\* the message the catch block of a popup sign-in picks by error.code
PopupErrorMessage(o, default) ==
    IF o.code = PopupClosed THEN "Sign-in was cancelled. Please try again."
    ELSE IF o.code = PopupBlocked
    THEN "Pop-up was blocked. Please allow pop-ups and try again."
    ELSE default

signInWithGoogle(o) ==
    IF o.resolved THEN AuthSuccess(o.user)
    ELSE AuthFailure(PopupErrorMessage(o, "Google sign-in failed. Please try again."))

signInWithGitHub(o) ==
    IF o.resolved THEN AuthSuccess(o.user)
    ELSE AuthFailure(PopupErrorMessage(o, "GitHub sign-in failed. Please try again."))

signOutUser(o) ==
    IF o.resolved THEN AuthSuccess(NoUser)
    ELSE AuthFailure(OrDefault(o.message, "Sign out failed"))

SignInHelpers == {"signUp", "signIn", "signInWithGoogle", "signInWithGitHub"}

Helper(fn, o) ==
    CASE fn = "signUp" -> signUp(o)
      [] fn = "signIn" -> signIn(o)
      [] fn = "signInWithGoogle" -> signInWithGoogle(o)
      [] fn = "signInWithGitHub" -> signInWithGitHub(o)
      [] fn = "signOutUser" -> signOutUser(o)

\* a sign-in helper is called with nobody signed in and its promise settles
AuthSignIn(fn, o) ==
    /\ fn \in SignInHelpers
    /\ o \in SignInOutcomes
    /\ authUser = NoUser
    /\ authCall' = [fn |-> fn, outcome |-> o, result |-> Helper(fn, o)]
    /\ authUser' = IF o.resolved THEN o.user ELSE authUser
    /\ UNCHANGED <<requests, chatVars, backendVars, formVars, previewVars, net,
                   historyVars, sidebarVars, widgetVars, confirmAnswer>>

\* signOutUser is called with a user signed in and its promise settles
AuthSignOut(o) ==
    /\ o \in SignOutOutcomes
    /\ authUser # NoUser
    /\ authCall' = [fn |-> "signOutUser", outcome |-> o, result |-> signOutUser(o)]
    /\ authUser' = IF o.resolved THEN NoUser ELSE authUser
    /\ UNCHANGED <<requests, chatVars, backendVars, formVars, previewVars, net,
                   historyVars, sidebarVars, widgetVars, confirmAnswer>>

(***************************************************************************)
(* api/files.ts                                                            *)
(***************************************************************************)
getAllFiles ==
    /\ WithToken("list", "files.getAllFiles", NoFile)
    /\ UNCHANGED <<authUser, nonApiVars>>

getUserProcessedFiles ==
    /\ WithToken("list", "files.getUserProcessedFiles", NoFile)
    /\ UNCHANGED <<authUser, nonApiVars>>

getRecentFiles ==
    /\ WithToken("list", "files.getRecentFiles", NoFile)
    /\ UNCHANGED <<authUser, nonApiVars>>

downloadProcessedFile(f) ==
    /\ WithToken("download", "files.downloadProcessedFile", f)
    /\ UNCHANGED <<authUser, nonApiVars>>

deleteProcessedFile(f) ==
    /\ WithToken("delete", "files.deleteProcessedFile", f)
    /\ UNCHANGED <<authUser, nonApiVars>>

(***************************************************************************)
(* api/chat.ts                                                             *)
(***************************************************************************)
askChat(question, f) ==
    IF authUser = NoUser
    THEN UNCHANGED requests
    ELSE Fetch("ask", "chat.askChat", Bearer(<<"idtoken", authUser>>), f, question)

ApiAskChat(question, f) ==
    /\ askChat(question, f)
    /\ UNCHANGED <<authUser, nonApiVars>>

(***************************************************************************)
(* components/Preview                                                      *)
(***************************************************************************)
PreviewFetchRequest(f) ==
    /\ WithToken("read", "Preview.fetchPreview", f)
    /\ UNCHANGED <<authUser, nonApiVars>>

PreviewDownloadRequest(f) ==
    /\ WithToken("download", "Preview.handleDownload", f)
    /\ UNCHANGED <<authUser, nonApiVars>>

PreviewProcessRequest ==
    /\ WithToken("process", "Preview.handleProcess", NoFile)
    /\ UNCHANGED <<authUser, nonApiVars>>

(***************************************************************************)
(* components/DataProcessingForm: the process-data request of handleSubmit *)
(***************************************************************************)
FormProcessRequest ==
    /\ WithToken("process", "DataProcessingForm.handleSubmit", NoFile)
    /\ UNCHANGED <<authUser, nonApiVars>>

(***************************************************************************)
(* pages/ProcessedFile                                                     *)
(***************************************************************************)
\* fetchProcessedFile: fetch(url) with no options, so no header at all
ProcessedFilePageFetch ==
    /\ authUser # NoUser      \* /processed-file is a protected route
    /\ Fetch("read", "ProcessedFile.fetchProcessedFile", NoHeader, NoFile, <<>>)
    /\ UNCHANGED <<authUser, nonApiVars>>

\* handleDownload: window.location.href = url, a plain navigation
ProcessedFilePageDownload ==
    /\ authUser # NoUser
    /\ Fetch("download", "ProcessedFile.handleDownload", NoHeader, NoFile, <<>>)
    /\ UNCHANGED <<authUser, nonApiVars>>

(***************************************************************************)
(* components/ChatPanel.tsx                                                *)
(***************************************************************************)
GreetingText == <<"Hello!">>
SelectFileText == <<"Please select a processed file first">>
DeselectText == <<"File selection cleared.">>
NoAnswerText == <<"No answer returned.">>
DefaultErrorText == <<"Something went wrong while calling the chat API.">>
WarnMark == <<"!">>     \* the warning-sign prefix of an error message
NoMark == <<>>

\* a Message; `session` records the signed-in user when it was created
Message(sender, mark, text, fileId) ==
    [sender |-> sender, mark |-> mark, text |-> text, fileId |-> fileId,
     session |-> authUser]

defaultMessage == Message("ai", NoMark, GreetingText, NoFile)

\* a ProcessedFile object held by the panel or by localStorage
FileObject(f) == [file_id |-> f, session |-> authUser]

FileIdOf(sel) == IF sel = None THEN NoFile ELSE sel.file_id

\* the panel's state is gone once the component is unmounted
PanelUnmounted ==
    /\ messages' = <<>>
    /\ inputText' = <<>>
    /\ isLoading' = FALSE
    /\ showFileList' = FALSE
    /\ processedFiles' = {}
    /\ selectedFile' = None
    /\ pendingSelect' = None
    /\ asks' = {}

\* initializeMessages followed by the route-change effect and the save
\* effect, in a document whose navigation type is "reload" or not
MountedMessages(reload) ==
    IF reload /\ lsChatMessages # <<>> THEN lsChatMessages ELSE <<defaultMessage>>

\* first render of the panel and its mount effects, for URL parameter `urlId`
PanelMounted(urlId, reload) ==
    /\ messages' = MountedMessages(reload)
    /\ lsChatMessages' = MountedMessages(reload)
    /\ inputText' = <<>>
    /\ isLoading' = FALSE
    /\ showFileList' = FALSE
    /\ processedFiles' = {}
    /\ asks' = {}
    /\ IF urlId # NoFile
       THEN /\ pendingSelect' = [fileId |-> urlId, closureSelected |-> None]
            /\ selectedFile' = None
       ELSE /\ pendingSelect' = None
            /\ selectedFile' = lsSelectedFile
    /\ UNCHANGED lsSelectedFile

\* handleFileSelect, run with the selectedFile its closure captured
FileSelected(file, closureSelected) ==
    IF FileIdOf(closureSelected) = file.file_id
    THEN /\ showFileList' = FALSE
         /\ UNCHANGED <<messages, lsChatMessages, selectedFile, lsSelectedFile>>
    ELSE /\ messages' = <<defaultMessage>>
         /\ lsChatMessages' = <<defaultMessage>>
         /\ selectedFile' = file
         /\ lsSelectedFile' = file
         /\ showFileList' = FALSE

handleFileSelect(f) ==
    /\ route = "chat"
    /\ f \in processedFiles
    /\ FileSelected(FileObject(f), selectedFile)
    /\ UNCHANGED <<chatFrame, apiVars, lsUser, route, chatUrl, isReload, store,
                   inputText, isLoading, processedFiles, pendingSelect, asks>>

\* handleFileSelectFromId after `await getUserProcessedFiles()`: `ok` is
\* whether the listing request succeeded (a failed one yields [])
handleFileSelectFromId(ok) ==
    /\ route = "chat"
    /\ pendingSelect # None
    /\ pendingSelect' = None
    /\ LET files == IF ok /\ authUser # NoUser THEN Listing(authUser) ELSE {}
       IN IF pendingSelect.fileId \in files
          THEN /\ FileSelected(FileObject(pendingSelect.fileId),
                               pendingSelect.closureSelected)
               /\ chatUrl' = NoFile
          ELSE UNCHANGED <<messages, lsChatMessages, selectedFile, lsSelectedFile,
                           showFileList, chatUrl>>
    /\ UNCHANGED <<chatFrame, apiVars, lsUser, route, isReload, store,
                   inputText, isLoading, processedFiles, asks>>

handleFileDeselectEffect ==
    /\ messages' = <<defaultMessage, Message("ai", NoMark, DeselectText, NoFile)>>
    /\ lsChatMessages' = messages'
    /\ selectedFile' = None
    /\ lsSelectedFile' = None

handleFileDeselect ==
    /\ route = "chat"
    /\ selectedFile # None
    /\ handleFileDeselectEffect
    /\ UNCHANGED <<chatFrame, apiVars, lsUser, route, chatUrl, isReload, store,
                   inputText, isLoading, showFileList, processedFiles,
                   pendingSelect, asks>>

\* toggleFileList and, when the list opens, fetchProcessedFiles
toggleFileList(ok) ==
    /\ route = "chat"
    /\ showFileList' = ~showFileList
    /\ processedFiles' =
          IF showFileList THEN processedFiles
          ELSE IF ok /\ authUser # NoUser THEN Listing(authUser) ELSE {}
    /\ UNCHANGED <<chatFrame, apiVars, browserVars, store, messages, inputText,
                   isLoading, selectedFile, pendingSelect, asks>>

\* the answer to a window.confirm about file f, as the handler that asked
\* saw it; `turn` tells one prompt from the one before it
Confirm(page, f, answer) ==
    [page |-> page, file |-> f, answer |-> answer,
     turn |-> IF confirmAnswer = None THEN 0 ELSE 1 - confirmAnswer.turn]

\* a plausible slip: the handler goes on whatever the answer was
ProceedsAlways(answer) == TRUE

\* `if (window.confirm(...))` / `if (!window.confirm(...)) return`
Proceeds(answer) == answer

\* handleDeleteFile; `ok` is the result of deleteProcessedFile
handleDeleteFile(f, answer, ok) ==
    /\ route = "chat"
    /\ f \in processedFiles
    /\ confirmAnswer' = Confirm("chat", f, answer)
    /\ IF Proceeds(answer) /\ ok /\ authUser # NoUser /\ f \in Listing(authUser)
       THEN /\ store' = StoreWithout(f)
            /\ processedFiles' = processedFiles \ {f}
            /\ IF FileIdOf(selectedFile) = f
               THEN handleFileDeselectEffect
               ELSE UNCHANGED <<messages, lsChatMessages, selectedFile, lsSelectedFile>>
       ELSE UNCHANGED <<store, processedFiles, messages, lsChatMessages,
                        selectedFile, lsSelectedFile>>
    /\ UNCHANGED <<askingFrame, apiVars, lsUser, route, chatUrl, isReload, inputText,
                   isLoading, showFileList, pendingSelect, asks>>

\* onChange of the textarea
setInputText(t) ==
    /\ route = "chat"
    /\ inputText # t
    /\ inputText' = t
    /\ UNCHANGED <<chatFrame, apiVars, browserVars, store, messages, isLoading,
                   showFileList, processedFiles, selectedFile, pendingSelect, asks>>

\* a plausible slip: the guard tests the raw text and forgets trim()
IsBlankUntrimmed(t) == t = <<>>

\* `!inputText.trim()`
IsBlank(t) == Trim(t) = <<>>

\* an ask in flight: what was sent, the file the closure holds, no response yet
Ask(question, fileId) ==
    [question |-> question, fileId |-> fileId, sentAs |-> authUser, resp |-> None]

\* handleSendMessage up to its `await askChat(...)`
handleSendMessage ==
    /\ route = "chat"
    /\ IF IsBlank(inputText)
       THEN UNCHANGED <<requests, messages, lsChatMessages, inputText, isLoading, asks>>
       ELSE IF selectedFile = None
       THEN /\ Len(messages) < MaxMessages
            /\ messages' = Append(messages, Message("ai", NoMark, SelectFileText, NoFile))
            /\ lsChatMessages' = messages'
            /\ UNCHANGED <<requests, inputText, isLoading, asks>>
       ELSE /\ Len(messages) + 2 <= MaxMessages
            /\ Cardinality(asks) < MaxAsks
            /\ inputText' = <<>>
            /\ askChat(inputText, selectedFile.file_id)
            /\ IF authUser = NoUser
               THEN \* askChat throws before any request: the catch branch runs
                    /\ messages' = messages \o
                          << Message("user", NoMark, inputText, selectedFile.file_id),
                             Message("ai", WarnMark, <<"User not authenticated">>, NoFile) >>
                    /\ isLoading' = FALSE
                    /\ UNCHANGED asks
               ELSE /\ messages' = Append(messages,
                          Message("user", NoMark, inputText, selectedFile.file_id))
                    /\ isLoading' = TRUE
                    /\ asks' = asks \cup {Ask(inputText, selectedFile.file_id)}
            /\ lsChatMessages' = messages'
    /\ UNCHANGED <<chatFrame, authUser, lsUser, lsSelectedFile, route, chatUrl, isReload,
                   store, showFileList, processedFiles, selectedFile,
                   pendingSelect>>

(***************************************************************************)
(* POST /chat at the backend: answers only the owner of the file           *)
(***************************************************************************)
Success(answer) == [ok |-> TRUE, answer |-> answer, detail |-> <<>>, message |-> <<>>]
Failure(detail, message) ==
    [ok |-> FALSE, answer |-> <<>>, detail |-> detail, message |-> message]

ChatResponses(a) ==
    {Failure(d, m) : d \in Details, m \in Details}
    \cup IF a.fileId \in Stored /\ store[a.fileId].owner = a.sentAs
         THEN {Success(ans) : ans \in Answers}
         ELSE {}

BackendChat(a, r) ==
    /\ a \in asks
    /\ a.resp = None
    /\ r \in ChatResponses(a)
    /\ asks' = (asks \ {a}) \cup {[a EXCEPT !.resp = r]}
    /\ UNCHANGED <<chatFrame, apiVars, browserVars, store, messages, inputText,
                   isLoading, showFileList, processedFiles, selectedFile,
                   pendingSelect>>

\* the text handleSendMessage shows for a response
AnswerText(r) == OrElse(r.answer, NoAnswerText)
ErrorDetail(r) == OrElse(r.detail, OrElse(r.message, DefaultErrorText))

\* a plausible slip: the catch branch builds the message like the try branch
AiMessageUnmarked(a) ==
    Message("ai", NoMark, IF a.resp.ok THEN AnswerText(a.resp) ELSE ErrorDetail(a.resp),
            a.fileId)

AiMessageFor(a) ==
    IF a.resp.ok
    THEN Message("ai", NoMark, AnswerText(a.resp), a.fileId)
    ELSE Message("ai", WarnMark, ErrorDetail(a.resp), NoFile)

\* handleSendMessage after the await: try / catch / finally
handleSendMessageDone(a) ==
    /\ route = "chat"
    /\ a \in asks
    /\ a.resp # None
    /\ asks' = asks \ {a}
    /\ messages' = Append(messages, AiMessageFor(a))
    /\ lsChatMessages' = messages'
    /\ isLoading' = FALSE
    /\ UNCHANGED <<chatFrame, apiVars, lsUser, lsSelectedFile, route, chatUrl, isReload,
                   store, inputText, showFileList, processedFiles,
                   selectedFile, pendingSelect>>

(***************************************************************************)
(* Routing, sign-in and logout                                             *)
(***************************************************************************)
LayoutRoutes == {"dashboard", "chat-history", "chat"}

\* Login.handleLogin with a successful signIn
handleLogin(u) ==
    /\ route = "login"
    /\ authUser = NoUser
    /\ authUser' = u
    /\ lsUser' = u
    /\ route' = "dashboard"
    /\ UNCHANGED <<chatFrame, requests, lsSelectedFile, lsChatMessages, chatUrl, isReload,
                   store, panelVars>>

\* Header.handleLogout and Sidebar.handleLogout share this body
LogoutEffect ==
    /\ route \in LayoutRoutes
    /\ authUser # NoUser
    /\ authUser' = NoUser
    /\ lsUser' = NoUser
    /\ route' = "login"
    /\ chatUrl' = NoFile
    /\ PanelUnmounted
    /\ UNCHANGED <<chatFrame, requests, lsSelectedFile, lsChatMessages, isReload, store>>

HeaderLogout == LogoutEffect

SidebarLogout == LogoutEffect

\* App.tsx: the flag the auth state listener keeps in step with currentUser
isAuthenticated == authUser # NoUser

\* what the router shows for /login
LoginRoute == IF isAuthenticated THEN "dashboard" ELSE "login"

\* Header.handleLogout when firebase's signOut rejects: signOutUser resolves,
\* the auth state is as before and no listener runs; the handler removes
\* 'user' and navigates to /login, which the router answers with
\* <Navigate to="/dashboard" replace>
LogoutSignOutFailed ==
    /\ route \in LayoutRoutes
    /\ authUser # NoUser
    /\ lsUser' = NoUser
    /\ route' = LoginRoute
    /\ chatUrl' = NoFile
    /\ PanelUnmounted
    /\ UNCHANGED <<chatFrame, apiVars, lsSelectedFile, lsChatMessages, isReload, store>>

\* Header.handleLogout, whatever signOut does
handleLogout(o) == IF signOutUser(o).success THEN LogoutEffect ELSE LogoutSignOutFailed

\* in-app navigation to /chat, with or without ?file_id=
OpenChat(urlId) ==
    /\ authUser # NoUser
    /\ route \in {"dashboard", "chat-history"}
    /\ urlId # NoFile => route = "chat-history" /\ urlId \in Listing(authUser)
    /\ route' = "chat"
    /\ chatUrl' = urlId
    /\ PanelMounted(urlId, isReload)
    /\ UNCHANGED <<chatFrame, apiVars, lsUser, isReload, store>>

\* in-app navigation away from the chat panel
LeaveChat(to) ==
    /\ route = "chat"
    /\ route' = to
    /\ chatUrl' = NoFile
    /\ PanelUnmounted
    /\ UNCHANGED <<chatFrame, apiVars, lsUser, lsSelectedFile, lsChatMessages, isReload,
                   store>>

\* the state of the preview page is gone once it is unmounted; React drops
\* the state updates of the continuations still pending
PreviewUnmounted ==
    /\ pvFileId' = ""
    /\ pvContent' = EmptyContent
    /\ pvLoading' = FALSE
    /\ pvError' = NoError
    /\ pvActiveTab' = "cleaned"
    /\ pvPage' = 0
    /\ pvFetches' = {}
    /\ pvBack' = <<>>

\* in-app navigation between the other pages
Navigate(to) ==
    /\ authUser # NoUser
    /\ route \in {"dashboard", "chat-history", "preview"}
    /\ to \in {"dashboard", "chat-history"}
    /\ route # to
    /\ route' = to
    /\ IF route = "preview"
       THEN PreviewUnmounted
       ELSE UNCHANGED <<pvFileId, pvContent, pvLoading, pvError, pvActiveTab, pvPage,
                        pvFetches, pvBack>>
    /\ UNCHANGED <<formSide, pvAlert, relInfo, apiVars, lsUser, lsSelectedFile,
                   lsChatMessages, chatUrl, isReload, store, panelVars>>

\* the browser reloads the document on the current route
PageReload ==
    /\ authUser # NoUser
    /\ route \in LayoutRoutes
    /\ isReload' = TRUE
    /\ IF route = "chat"
       THEN PanelMounted(chatUrl, TRUE)
       ELSE UNCHANGED <<lsSelectedFile, lsChatMessages, panelVars>>
    /\ pvFetches' = {}
    /\ relInfo' = None
    /\ UNCHANGED <<formSide, pvFileId, pvContent, pvLoading, pvError, pvActiveTab,
                   pvPage, pvBack, pvAlert, apiVars, lsUser, route, chatUrl, store>>

\* ChatHistory.handleDelete, confirmed, with a successful delete request
HistoryDelete(f) ==
    /\ route = "chat-history"
    /\ authUser # NoUser
    /\ f \in Listing(authUser)
    /\ store' = StoreWithout(f)
    /\ UNCHANGED <<chatFrame, apiVars, browserVars, panelVars>>

(***************************************************************************)
(* api/files.ts listing helpers, pages/ChatHistory.tsx, Sidebar recent     *)
(* files, with their requests in flight                                    *)
(***************************************************************************)
\* GET /user-files and GET /recent-files answered 200 with `fs`, or not ok
ListSuccess(fs) == [ok |-> TRUE, files |-> fs]
ListFailure == [ok |-> FALSE, files |-> {}]
ListResponses(u) == {ListSuccess(Listing(u)), ListFailure}

\* what getUserProcessedFiles and getRecentFiles resolve to: `data.files || []`
\* after an ok response, and [] out of the catch block; they never reject
ListResult(resp) ==
    [rejected |-> FALSE, files |-> IF resp.ok THEN resp.files ELSE {}]

\* the list request of one fetchFiles call
ListRequest(u) == [sentAs |-> u, resp |-> None]

RemoveAt(s, i) == SubSeq(s, 1, i - 1) \o SubSeq(s, i + 1, Len(s))

\* fetchFiles up to its await: setLoading(true) and the request, or, without
\* a token, the helper's catch block at once
fetchFiles ==
    /\ loading' = TRUE
    /\ IF authUser = NoUser
       THEN /\ listing' = Append(listing, [ListRequest(NoUser) EXCEPT !.resp = ListFailure])
       ELSE /\ listing' = Append(listing, ListRequest(authUser))

\* navigation to /chat-history mounts the page; its effect calls fetchFiles
OpenHistory ==
    /\ route = "dashboard"
    /\ authUser # NoUser
    /\ route' = "chat-history"
    /\ listing = <<>>
    /\ fetchFiles
    /\ historyFiles' = {}
    /\ listOutcome' = None
    /\ deletes' = {}
    /\ historyAlert' = NoAlert
    /\ UNCHANGED <<apiVars, lsUser, lsSelectedFile, lsChatMessages, chatUrl, isReload,
                   panelVars, backendVars, formVars, previewVars, net, sidebarVars, loginVars, widgetVars,
                   confirmAnswer>>

\* the Refresh button of the history page
HistoryRefresh ==
    /\ route = "chat-history"
    /\ Len(listing) < MaxLists
    /\ fetchFiles
    /\ UNCHANGED <<apiVars, chatVars, backendVars, formVars, previewVars, net,
                   historyFiles, listOutcome, deletes, historyAlert, sidebarVars, loginVars, widgetVars,
                   confirmAnswer>>

\* the backend answers the i-th list request in flight
BackendListFiles(i, r) ==
    /\ i \in 1..Len(listing)
    /\ listing[i].resp = None
    /\ r \in ListResponses(listing[i].sentAs)
    /\ listing' = [listing EXCEPT ![i].resp = r]
    /\ UNCHANGED <<apiVars, chatVars, backendVars, formVars, previewVars, net,
                   historyFiles, loading, listOutcome, deletes, historyAlert,
                   sidebarVars, loginVars, widgetVars, confirmAnswer>>

\* fetchFiles after the await: setFiles(allFiles), finally setLoading(false)
fetchFilesDone(i) ==
    /\ route = "chat-history"
    /\ i \in 1..Len(listing)
    /\ listing[i].resp # None
    /\ LET allFiles == ListResult(listing[i].resp)
       IN /\ listOutcome' = [from |-> listing[i].resp, result |-> allFiles]
          /\ historyFiles' = allFiles.files
    /\ loading' = FALSE
    /\ listing' = RemoveAt(listing, i)
    /\ UNCHANGED <<apiVars, chatVars, backendVars, formVars, previewVars, net,
                   deletes, historyAlert, sidebarVars, loginVars, widgetVars, confirmAnswer>>

\* Sidebar: the mount effect and the refresh button, request and response
\* in one step: setRecentFiles(await getRecentFiles())
fetchRecentFiles(r) ==
    /\ route \in LayoutRoutes
    /\ r \in IF authUser = NoUser THEN {ListFailure} ELSE ListResponses(authUser)
    /\ recentOutcome' = [from |-> r, result |-> ListResult(r)]
    /\ recentFiles' = ListResult(r).files
    /\ UNCHANGED <<apiVars, chatVars, backendVars, formVars, previewVars, net,
                   historyVars, loginVars, widgetVars, confirmAnswer>>

\* a delete request of the history page: `files` is the list of the render
\* whose handler was clicked
DeleteRequest(f) ==
    [fileId |-> f, closureFiles |-> historyFiles, sentAs |-> authUser, resp |-> "sent"]

\* ChatHistory.handleDelete up to its await
handleDelete(f, answer) ==
    /\ route = "chat-history"
    /\ ~loading
    /\ f \in historyFiles
    /\ confirmAnswer' = Confirm("history", f, answer)
    /\ IF ~Proceeds(answer)
       THEN UNCHANGED <<deletes, historyAlert>>
       ELSE IF authUser = NoUser
       THEN /\ historyAlert' = "Failed to delete file"
            /\ UNCHANGED deletes
       ELSE /\ Cardinality(deletes) < MaxDeletes
            /\ deletes' = deletes \cup {DeleteRequest(f)}
            /\ UNCHANGED historyAlert
    /\ UNCHANGED <<apiVars, chatVars, backendVars, formVars, previewVars, net,
                   historyFiles, loading, listOutcome, listing, sidebarVars, loginVars, widgetVars>>

\* DELETE /delete-file/{id}: removes the caller's own file, else answers not ok
BackendDelete(d, ok) ==
    /\ d \in deletes
    /\ d.resp = "sent"
    /\ IF ok /\ d.fileId \in Listing(d.sentAs)
       THEN /\ store' = StoreWithout(d.fileId)
            /\ deletes' = (deletes \ {d}) \cup {[d EXCEPT !.resp = "ok"]}
       ELSE /\ UNCHANGED store
            /\ deletes' = (deletes \ {d}) \cup {[d EXCEPT !.resp = "failed"]}
    /\ UNCHANGED <<apiVars, chatVars, nextId, serverUpload, formVars, previewVars, net,
                   historyFiles, loading, listOutcome, listing, historyAlert,
                   sidebarVars, loginVars, widgetVars, confirmAnswer>>

\* `files.filter(file => file.file_id !== fileId)` over the captured `files`
FilteredFiles(d) == d.closureFiles \ {d.fileId}

\* a plausible slip: a delete that failed is sent once more
StillInFlightRetried(d) ==
    IF d.resp = "failed" THEN (deletes \ {d}) \cup {[d EXCEPT !.resp = "sent"]}
    ELSE deletes \ {d}

\* deleteProcessedFile issues one fetch and resolves, to false from its
\* catch block: the request is over
StillInFlight(d) == deletes \ {d}

\* ChatHistory.handleDelete after the await
handleDeleteDone(d) ==
    /\ route = "chat-history"
    /\ d \in deletes
    /\ d.resp # "sent"
    /\ deletes' = StillInFlight(d)
    /\ IF d.resp = "ok"
       THEN /\ historyFiles' = FilteredFiles(d)
            /\ UNCHANGED historyAlert
       ELSE /\ historyAlert' = "Failed to delete file"
            /\ UNCHANGED historyFiles
    /\ UNCHANGED <<apiVars, chatVars, backendVars, formVars, previewVars, net,
                   loading, listOutcome, listing, sidebarVars, loginVars, widgetVars, confirmAnswer>>


(***************************************************************************)
(* components/FileUpload.tsx                                               *)
(***************************************************************************)
\* the files a user can pick or drop: media type, extension, size in MB
SizeCeiling == 50
MediaTypes == {"text/csv", "image/png", ""}
Extensions == {"csv", "xlsx", "xls", "png"}
PickedFiles == [type : MediaTypes, ext : Extensions, size : {SizeCeiling, SizeCeiling + 1}]

validTypes ==
    {"text/csv", "application/vnd.ms-excel",
     "application/vnd.openxmlformats-officedocument.spreadsheetml.sheet"}

\* isValidFileType: media type or file name ending; the size is not looked at
isValidFileType(file) ==
    file.type \in validTypes \/ file.ext \in {"csv", "xlsx", "xls"}

\* handleDrop: a valid file goes to the parent at once, without an upload
handleDrop(file) ==
    /\ route = "dashboard"
    /\ fuFile = None
    /\ isValidFileType(file)
    /\ fuFile' = file
    /\ handedFile' = file
    /\ UNCHANGED <<apiVars, chatVars, backendVars, formVars, previewVars, net,
                   historyVars, sidebarVars, loginVars, downloadVars, fuUpload, fuAlert, confirmAnswer>>

\* handleFileInput up to its fetch: setUploadedFile, then the token and the
\* POST /upload carrying the file
handleFileInput(file) ==
    /\ route = "dashboard"
    /\ fuFile = None
    /\ fuUpload = None
    /\ isValidFileType(file)
    /\ fuFile' = file
    /\ IF authUser = NoUser
       THEN /\ fuAlert' = "User not authenticated. Please login again."
            /\ UNCHANGED fuUpload
       ELSE /\ fuUpload' = [file |-> file, auth |-> Bearer(getCurrentUserToken),
                            state |-> "sent"]
            /\ UNCHANGED fuAlert
    /\ UNCHANGED <<apiVars, chatVars, backendVars, formVars, previewVars, net,
                   historyVars, sidebarVars, loginVars, downloadVars, handedFile, confirmAnswer>>

\* POST /upload answers ok or not ok, or the request fails on the network
BackendUploadFile(outcome) ==
    /\ fuUpload # None
    /\ fuUpload.state = "sent"
    /\ outcome \in {"ok", "failed", "neterr"}
    /\ fuUpload' = [fuUpload EXCEPT !.state = outcome]
    /\ UNCHANGED <<apiVars, chatVars, backendVars, formVars, previewVars, net,
                   historyVars, sidebarVars, loginVars, downloadVars, fuFile, handedFile, fuAlert, confirmAnswer>>

\* handleFileInput after the fetch: onFileUpload(file) on `response.ok`
handleFileInputDone ==
    /\ fuUpload # None
    /\ fuUpload.state # "sent"
    /\ fuUpload' = None
    /\ IF fuUpload.state = "ok"
       THEN /\ handedFile' = fuUpload.file
            /\ UNCHANGED fuAlert
       ELSE /\ fuAlert' = IF fuUpload.state = "failed" THEN "Failed to upload file"
                          ELSE "Error uploading file"
            /\ UNCHANGED handedFile
    /\ UNCHANGED <<apiVars, chatVars, backendVars, formVars, previewVars, net,
                   historyVars, sidebarVars, loginVars, downloadVars, fuFile, confirmAnswer>>

\* removeFile: setUploadedFile(null)
removeFile ==
    /\ route = "dashboard"
    /\ fuFile # None
    /\ fuFile' = None
    /\ UNCHANGED <<apiVars, chatVars, backendVars, formVars, previewVars, net,
                   historyVars, sidebarVars, loginVars, downloadVars, handedFile, fuUpload, fuAlert, confirmAnswer>>

(***************************************************************************)
(* components/DataProcessingForm.tsx                                       *)
(***************************************************************************)
\* the File the Dashboard page hands to the form in tab t
uploadedFile(t) == <<"upload", t>>

\* encodeURIComponent applied to json.file_id: a missing id becomes "undefined"
EncodedFileId(resp) == IF resp.hasId THEN resp.file_id ELSE Undefined

\* the number input's value as typed: empty/non-numeric text or an integer
TypedEmpty == [numeric |-> FALSE, n |-> 0]
TypedInt(n) == [numeric |-> TRUE, n |-> n]
TypedValues == {TypedEmpty} \cup {TypedInt(n) : n \in {-1, 0, 2, 20, 21}}

\* `parseInt(value) || 1`: NaN and 0 are falsy
ParsedOrOne(v) == IF v.numeric /\ v.n # 0 THEN v.n ELSE 1

Max(a, b) == IF a >= b THEN a ELSE b
Min(a, b) == IF a <= b THEN a ELSE b

formFrame == <<apiVars, chatVars, previewVars, pageVars, confirmAnswer>>

\* the "-" button
DecrementRelations(t) ==
    /\ navigatedTo[t] = NoFile
    /\ numberOfRelations' =
          [numberOfRelations EXCEPT ![t] = Max(1, numberOfRelations[t] - 1)]
    /\ UNCHANGED <<formFrame, backendVars, formUser, requireDashboard, isProcessing, formPc,
                   formClosure, net, formAlert, navigatedTo>>

\* the "+" button
IncrementRelations(t) ==
    /\ navigatedTo[t] = NoFile
    /\ numberOfRelations' =
          [numberOfRelations EXCEPT ![t] = Min(20, numberOfRelations[t] + 1)]
    /\ UNCHANGED <<formFrame, backendVars, formUser, requireDashboard, isProcessing, formPc,
                   formClosure, net, formAlert, navigatedTo>>

\* onChange of the number input
TypeRelations(t, v) ==
    /\ navigatedTo[t] = NoFile
    /\ numberOfRelations' =
          [numberOfRelations EXCEPT ![t] = Max(1, ParsedOrOne(v))]
    /\ UNCHANGED <<formFrame, backendVars, formUser, requireDashboard, isProcessing, formPc,
                   formClosure, net, formAlert, navigatedTo>>

\* the "Generate dashboard" checkbox
ToggleDashboard(t) ==
    /\ navigatedTo[t] = NoFile
    /\ requireDashboard' = [requireDashboard EXCEPT ![t] = ~requireDashboard[t]]
    /\ UNCHANGED <<formFrame, backendVars, formUser, numberOfRelations, isProcessing,
                   formPc, formClosure, net, formAlert, navigatedTo>>

\* the sign-in of tab t ends (signed out elsewhere, session expired)
FormAuthLost(t) ==
    /\ formUser[t] # NoUser
    /\ formUser' = [formUser EXCEPT ![t] = NoUser]
    /\ UNCHANGED <<formFrame, backendVars, numberOfRelations, requireDashboard,
                   isProcessing, formPc,
                   formClosure, net, formAlert, navigatedTo>>

\* a request of handleSubmit on the wire; state is "sent" until answered
FormRequest(kind, auth, file, n, dash) ==
    [kind |-> kind, auth |-> auth, file |-> file, number_of_relations |-> n,
     require_dashboard |-> dash,
     state |-> "sent", hasId |-> FALSE, file_id |-> NoFile]

\* a plausible slip: the number input loses its max attribute
RangeValidNoMax(n) == n >= 1

\* the number input's min="1" max="20": the browser does not fire the submit
\* event of the form while the field is out of range
RangeValid(n) == n >= 1 /\ n <= 20

\* a plausible slip: the submit button loses its disabled attribute
SubmitAlwaysEnabled(t) == TRUE

\* the submit button: `disabled={isProcessing}`
SubmitEnabled(t) == ~isProcessing[t]

\* handleSubmit up to `await fetch(.../upload)`
handleSubmit(t) ==
    /\ navigatedTo[t] = NoFile
    /\ RangeValid(numberOfRelations[t])
    /\ SubmitEnabled(t)
    /\ IF formUser[t] = NoUser
       THEN /\ formAlert' = [formAlert EXCEPT ![t] = "You must be logged in"]
            /\ UNCHANGED <<isProcessing, formPc, formClosure, net>>
       ELSE /\ isProcessing' = [isProcessing EXCEPT ![t] = TRUE]
            /\ formPc' = [formPc EXCEPT ![t] = "uploading"]
            /\ formClosure' = [formClosure EXCEPT ![t] =
                  [token |-> <<"idtoken", formUser[t]>>, n |-> numberOfRelations[t],
                   dash |-> requireDashboard[t]]]
            /\ net' = [net EXCEPT ![t] =
                  FormRequest("upload", NoHeader, uploadedFile(t), 0, FALSE)]
            /\ formAlert' = [formAlert EXCEPT ![t] = NoAlert]
    /\ UNCHANGED <<formFrame, backendVars, formUser, numberOfRelations, requireDashboard,
                   navigatedTo>>

\* handleSubmit after the upload response: throw on !ok, else send process-data
handleSubmitUploaded(t) ==
    /\ formPc[t] = "uploading"
    /\ net[t].state # "sent"
    /\ IF net[t].state = "ok"
       THEN /\ net' = [net EXCEPT ![t] =
                  FormRequest("process", Bearer(formClosure[t].token), NoUpload,
                              formClosure[t].n, formClosure[t].dash)]
            /\ formPc' = [formPc EXCEPT ![t] = "processing"]
            /\ UNCHANGED <<isProcessing, formAlert>>
       ELSE /\ net' = [net EXCEPT ![t] = None]
            /\ formPc' = [formPc EXCEPT ![t] = "idle"]
            /\ formAlert' = [formAlert EXCEPT ![t] = "Error processing file."]
            /\ isProcessing' = [isProcessing EXCEPT ![t] = FALSE]
    /\ UNCHANGED <<formFrame, backendVars, formUser, numberOfRelations, requireDashboard,
                   formClosure, navigatedTo>>

\* handleSubmit after the process-data response
handleSubmitProcessed(t) ==
    /\ formPc[t] = "processing"
    /\ net[t].state # "sent"
    /\ IF net[t].state = "ok"
       THEN /\ navigatedTo' = [navigatedTo EXCEPT ![t] = EncodedFileId(net[t])]
            /\ UNCHANGED formAlert
       ELSE /\ formAlert' = [formAlert EXCEPT ![t] =
                  IF net[t].state = "fail" THEN "Failed to process file"
                  ELSE "Error processing file."]
            /\ UNCHANGED navigatedTo
    /\ net' = [net EXCEPT ![t] = None]
    /\ formPc' = [formPc EXCEPT ![t] = "idle"]
    /\ isProcessing' = [isProcessing EXCEPT ![t] = FALSE]
    /\ UNCHANGED <<formFrame, backendVars, formUser, numberOfRelations, requireDashboard,
                   formClosure>>

(***************************************************************************)
(* Backend boundary: POST /upload and POST /process-data                   *)
(***************************************************************************)
\* POST /upload (public endpoint): keeps the file for the next process-data
BackendUpload(t, ok) ==
    /\ net[t] # None
    /\ net[t].kind = "upload"
    /\ net[t].state = "sent"
    /\ net' = [net EXCEPT ![t].state = IF ok THEN "ok" ELSE "fail"]
    /\ serverUpload' = IF ok THEN net[t].file ELSE serverUpload
    /\ UNCHANGED <<formFrame, store, nextId, formUser, numberOfRelations, requireDashboard,
                   isProcessing, formPc, formClosure, formAlert, navigatedTo>>

\* what the relation miner finds in an uploaded file: the number of valid
\* candidate pairs and the number of rows of its canonical table
Candidates(file) == IF file = <<"upload", "tab1">> THEN 1 ELSE 0
RowsOf(file) == IF file = <<"upload", "tab1">> THEN 2 ELSE 1

\* the ProcessedFile a processing run creates for the bearer of `auth`
NewProcessedFile(auth, n, dash) ==
    ProcessedFile(auth[2][2], serverUpload, n, Min(n, Candidates(serverUpload)),
                  RowsOf(serverUpload), dash)

\* POST /process-data: processes the uploaded file into a new ProcessedFile;
\* outcome "ok" answers with its file_id, "noid" answers 200 without one,
\* "fail" answers with an error status
BackendProcess(t, outcome) ==
    /\ net[t] # None
    /\ net[t].kind = "process"
    /\ net[t].state = "sent"
    /\ IF outcome = "ok" /\ serverUpload # NoUpload /\ nextId <= MaxNewFiles
       THEN /\ store' = [f \in Stored \cup {FreshIds[nextId]} |->
                  IF f \in Stored THEN store[f]
                  ELSE NewProcessedFile(net[t].auth, net[t].number_of_relations,
                                        net[t].require_dashboard)]
            /\ nextId' = nextId + 1
            /\ net' = [net EXCEPT ![t].state = "ok", ![t].hasId = TRUE,
                                          ![t].file_id = FreshIds[nextId]]
       ELSE /\ net' = [net EXCEPT ![t].state =
                                IF outcome = "noid" THEN "ok" ELSE "fail"]
            /\ UNCHANGED <<store, nextId>>
    /\ UNCHANGED <<formFrame, serverUpload, formUser, numberOfRelations, requireDashboard,
                   isProcessing, formPc, formClosure, formAlert, navigatedTo>>

\* the request or its response is lost: fetch rejects
NetworkError(t) ==
    /\ net[t] # None
    /\ net[t].state = "sent"
    /\ net' = [net EXCEPT ![t].state = "neterr"]
    /\ UNCHANGED <<formFrame, backendVars, formUser, numberOfRelations, requireDashboard,
                   isProcessing, formPc, formClosure, formAlert, navigatedTo>>

(***************************************************************************)
(* Preview page (unnamed/part_002)                                         *)
(***************************************************************************)
PageSize == 25
ReprocessRelations == 3
PreviewUrls == FileIds \cup {""}

\* a get-processed-data request of fetchPreview on the wire
PreviewFetch(f) ==
    [fileId |-> f, auth |-> Bearer(getCurrentUserToken), sentAs |-> authUser,
     resp |-> None]

\* the effect on [fileId] up to `await fetch(...)`: what it leaves in loading,
\* error and the requests in flight
FetchPreviewStart(f, error, fetches) ==
    IF f = ""
    THEN [loading |-> FALSE, error |-> "No file specified.", fetches |-> fetches]
    ELSE IF authUser = NoUser
    THEN [loading |-> FALSE, error |-> "User not authenticated", fetches |-> fetches]
    ELSE [loading |-> TRUE, error |-> error,
          fetches |-> fetches \cup {PreviewFetch(f)}]

\* /preview?file_id=f is opened: first render of the page and its effect
OpenPreview(f) ==
    /\ route \in {"dashboard", "chat-history"}
    /\ authUser # NoUser
    /\ Cardinality(pvFetches) < MaxFetches
    /\ route' = "preview"
    /\ pvFileId' = f
    /\ pvContent' = EmptyContent
    /\ pvActiveTab' = "cleaned"
    /\ pvPage' = 0
    /\ LET e == FetchPreviewStart(f, NoError, pvFetches)
       IN /\ pvLoading' = e.loading
          /\ pvError' = e.error
          /\ pvFetches' = e.fetches
    /\ UNCHANGED <<formSide, pvAlert, relInfo, apiVars, lsUser, lsSelectedFile,
                   lsChatMessages, chatUrl, isReload, store, panelVars>>
    /\ pvBack' = <<>>

\* GET /get-processed-data/{file_id}: answers the owner of a stored file
PreviewData(f) ==
    [ok |-> TRUE, detail |-> "",
     requested_relations |-> store[f].requested,
     generated_relations |-> store[f].generated,
     cleaned_data |-> store[f].rows,
     pivot_tables |-> store[f].generated,
     has_dashboard |-> store[f].has_dashboard]

PreviewFailure(detail) ==
    [ok |-> FALSE, detail |-> detail, requested_relations |-> 0,
     generated_relations |-> 0, cleaned_data |-> 0, pivot_tables |-> 0,
     has_dashboard |-> FALSE]

PreviewResponses(q) ==
    IF q.fileId \in Stored /\ store[q.fileId].owner = q.sentAs
    THEN {PreviewData(q.fileId), PreviewFailure("")}
    ELSE {PreviewFailure("File not found")}

BackendGetProcessedData(q, r) ==
    /\ q \in pvFetches
    /\ q.resp = None
    /\ r \in PreviewResponses(q)
    /\ pvFetches' = (pvFetches \ {q}) \cup {[q EXCEPT !.resp = r]}
    /\ UNCHANGED <<formSide, pvFileId, pvContent, pvLoading, pvError, pvActiveTab,
                   pvPage, pvAlert, relInfo, apiVars, browserVars, store, panelVars>>
    /\ UNCHANGED pvBack

\* `a || b` on numbers: 0 is falsy
OrNumber(a, b) == IF a # 0 THEN a ELSE b

\* window.__pivot_relations_info as fetchPreview computes it
RelationsInfo(r) ==
    [reqR |-> OrNumber(r.requested_relations, 0),
     genR |-> OrNumber(r.generated_relations, OrNumber(r.pivot_tables, 0))]

\* fetchPreview after the await: try / catch / finally
PreviewFetchDone(q) ==
    /\ q \in pvFetches
    /\ q.resp # None
    /\ pvFetches' = pvFetches \ {q}
    /\ relInfo' = IF q.resp.ok THEN RelationsInfo(q.resp) ELSE relInfo
    /\ pvLoading' = FALSE
    /\ IF q.resp.ok
       THEN /\ pvContent' = [of |-> q.fileId, rows |-> q.resp.cleaned_data,
                             pivots |-> q.resp.pivot_tables,
                             has_dashboard |-> q.resp.has_dashboard]
            /\ UNCHANGED pvError
       ELSE /\ pvError' = IF q.resp.detail # "" THEN q.resp.detail
                          ELSE "Failed to fetch preview"
            /\ UNCHANGED pvContent
    /\ UNCHANGED <<formSide, pvFileId, pvActiveTab, pvPage, pvAlert, apiVars,
                   browserVars, store, panelVars>>
    /\ UNCHANGED pvBack

\* which of the four returns of the component renders
Screen ==
    IF route # "preview" THEN "none"
    ELSE IF pvLoading THEN "loading"
    ELSE IF pvError # NoError THEN "error"
    ELSE IF pvContent.rows = 0 /\ pvContent.pivots = 0 THEN "nodata"
    ELSE "main"

\* the relations info banner is part of the rendered page
BannerShown ==
    /\ Screen = "main"
    /\ pvActiveTab = "pivot"
    /\ pvContent.pivots > 0
    /\ relInfo # None
    /\ relInfo.reqR > 0
    /\ relInfo.genR < relInfo.reqR

\* the tab buttons; the Dashboard button is rendered only with hasDashboard
setActiveTab(tab) ==
    /\ Screen = "main"
    /\ tab \in {"cleaned", "pivot"} \cup
               (IF pvContent.has_dashboard THEN {"dashboard"} ELSE {})
    /\ pvActiveTab # tab
    /\ pvActiveTab' = tab
    /\ UNCHANGED <<formSide, pvFileId, pvContent, pvLoading, pvError, pvPage,
                   pvFetches, pvAlert, relInfo, apiVars, browserVars, store, panelVars>>
    /\ UNCHANGED pvBack

\* a plausible slip: the content is tied to the active tab alone
DashboardContentAnyFile(tab, hasDashboard) == tab = "dashboard"

\* `activeTab === 'dashboard' && hasDashboard`
DashboardContent(tab, hasDashboard) == tab = "dashboard" /\ hasDashboard

\* the Dashboard tab button and the dashboard content are part of the page
DashboardTabOffered == Screen = "main" /\ pvContent.has_dashboard
DashboardContentShown ==
    Screen = "main" /\ DashboardContent(pvActiveTab, pvContent.has_dashboard)

PaginationShown == Screen = "main" /\ pvActiveTab = "cleaned" /\ pvContent.rows > 0

\* the Previous button, disabled on page 0
PreviousPage ==
    /\ PaginationShown
    /\ pvPage # 0
    /\ pvPage' = pvPage - 1
    /\ UNCHANGED <<formSide, pvFileId, pvContent, pvLoading, pvError, pvActiveTab,
                   pvFetches, pvAlert, relInfo, apiVars, browserVars, store, panelVars>>
    /\ UNCHANGED pvBack

\* the Next button, disabled on the last page
NextPage ==
    /\ PaginationShown
    /\ ~(pvPage * PageSize + PageSize >= pvContent.rows)
    /\ pvPage' = pvPage + 1
    /\ UNCHANGED <<formSide, pvFileId, pvContent, pvLoading, pvError, pvActiveTab,
                   pvFetches, pvAlert, relInfo, apiVars, browserVars, store, panelVars>>
    /\ UNCHANGED pvBack

\* handleProcess up to `await fetch(.../process-data)`; the button is
\* disabled while a run is in flight
handleProcess ==
    /\ Screen = "main"
    /\ net[PreviewClient] = None
    /\ IF authUser = NoUser
       THEN /\ pvAlert' = "User not authenticated"
            /\ UNCHANGED net
       ELSE /\ net' = [net EXCEPT ![PreviewClient] =
                  FormRequest("process", Bearer(getCurrentUserToken), NoUpload,
                              ReprocessRelations, TRUE)]
            /\ pvAlert' = NoAlert
    /\ UNCHANGED <<nextId, serverUpload, formVars, pageVars, confirmAnswer, pvFileId, pvContent, pvLoading,
                   pvError, pvActiveTab, pvPage, pvFetches, relInfo, apiVars,
                   browserVars, store, panelVars>>
    /\ UNCHANGED pvBack

\* the alert of handleProcess's catch branch
ProcessAlert(resp) ==
    IF resp.state = "ok" THEN "No file_id returned"
    ELSE IF resp.state = "fail" THEN "Processing failed"
    ELSE "Re-process request failed"

\* a plausible slip: navigate with whatever the response carries, as the
\* processing form does
NavigatesWithoutId(resp) == resp.state = "ok"

\* `res.ok` and `newFileId` both hold
NavigatesToNewFile(resp) == resp.state = "ok" /\ resp.hasId

\* handleProcess after the await: navigate to ?file_id=<new id>, which on the
\* preview re-runs the effect on [fileId], or alert
handleProcessDone ==
    /\ net[PreviewClient] # None
    /\ net[PreviewClient].state # "sent"
    /\ net' = [net EXCEPT ![PreviewClient] = None]
    /\ LET resp == net[PreviewClient]
           newFileId == EncodedFileId(resp)
       IN IF NavigatesToNewFile(resp)
          THEN /\ UNCHANGED pvAlert
               /\ IF route = "preview"
                  THEN /\ Cardinality(pvFetches) < MaxFetches
                       /\ pvFileId' = newFileId
                       /\ pvBack' = Append(pvBack, pvFileId)
                       /\ LET e == FetchPreviewStart(newFileId, pvError, pvFetches)
                          IN /\ pvLoading' = e.loading
                             /\ pvError' = e.error
                             /\ pvFetches' = e.fetches
                       /\ UNCHANGED <<chatUrl, pendingSelect>>
                  ELSE /\ IF route = "chat"
                          THEN /\ chatUrl' = newFileId
                               /\ pendingSelect' = [fileId |-> newFileId,
                                                    closureSelected |-> selectedFile]
                          ELSE UNCHANGED <<chatUrl, pendingSelect>>
                       /\ UNCHANGED <<pvFileId, pvLoading, pvError, pvFetches, pvBack>>
          ELSE /\ pvAlert' = ProcessAlert(resp)
               /\ UNCHANGED <<pvFileId, pvLoading, pvError, pvFetches, pvBack, chatUrl,
                              pendingSelect>>
    /\ UNCHANGED <<nextId, serverUpload, formVars, pageVars, confirmAnswer, pvContent, pvActiveTab, pvPage,
                   relInfo, apiVars, lsUser, lsSelectedFile, lsChatMessages, route,
                   isReload, store, messages, inputText, isLoading, showFileList,
                   processedFiles, selectedFile, asks>>

\* the browser's Back button on a preview reached through a re-process: the
\* URL returns to the previous file_id, the page stays mounted and its
\* effect on [fileId] runs again
PreviewBack ==
    /\ route = "preview"
    /\ pvBack # <<>>
    /\ Cardinality(pvFetches) < MaxFetches
    /\ pvFileId' = pvBack[Len(pvBack)]
    /\ pvBack' = SubSeq(pvBack, 1, Len(pvBack) - 1)
    /\ LET e == FetchPreviewStart(pvBack[Len(pvBack)], pvError, pvFetches)
       IN /\ pvLoading' = e.loading
          /\ pvError' = e.error
          /\ pvFetches' = e.fetches
    /\ UNCHANGED <<formSide, pvContent, pvActiveTab, pvPage, pvAlert, relInfo, apiVars,
                   browserVars, store, panelVars>>

\* the Try Again button of the error screen: window.location.reload()
PreviewReload ==
    /\ Screen = "error"
    /\ isReload' = TRUE
    /\ relInfo' = None
    /\ net' = [net EXCEPT ![PreviewClient] = None]
    /\ pvContent' = EmptyContent
    /\ pvActiveTab' = "cleaned"
    /\ pvPage' = 0
    /\ LET e == FetchPreviewStart(pvFileId, NoError, {})
       IN /\ pvLoading' = e.loading
          /\ pvError' = e.error
          /\ pvFetches' = e.fetches
    /\ UNCHANGED <<nextId, serverUpload, formVars, pageVars, confirmAnswer, pvFileId, pvAlert, apiVars, lsUser,
                   lsSelectedFile, lsChatMessages, route, chatUrl, store, panelVars>>
    /\ pvBack' = <<>>

\* the AI Chat button: stores fileId as the selected file and opens /chat
PreviewAIChat ==
    /\ Screen = "main"
    /\ lsSelectedFile' = IF pvFileId # "" THEN FileObject(pvFileId) ELSE lsSelectedFile
    /\ route' = "chat"
    /\ chatUrl' = NoFile
    /\ PreviewUnmounted
    /\ messages' = MountedMessages(isReload)
    /\ lsChatMessages' = MountedMessages(isReload)
    /\ inputText' = <<>>
    /\ isLoading' = FALSE
    /\ showFileList' = FALSE
    /\ processedFiles' = {}
    /\ asks' = {}
    /\ pendingSelect' = None
    /\ selectedFile' = lsSelectedFile'
    /\ UNCHANGED <<formSide, pvAlert, relInfo, apiVars, lsUser, isReload, store>>

(***************************************************************************)
(* downloads: api/files.ts downloadProcessedFile with                      *)
(* ChatHistory.handleDownload, and Preview.handleDownload                  *)
(***************************************************************************)
DownloadRequest(f) == [file |-> f, auth |-> Bearer(getCurrentUserToken), state |-> "sent"]

\* Preview.handleDownload up to its fetch: the button is disabled first
PreviewHandleDownload ==
    /\ Screen = "main"
    /\ ~downloadDisabled
    /\ download["preview"] = None
    /\ IF authUser = NoUser
       THEN /\ pvAlert' = "User not authenticated"
            /\ UNCHANGED <<download, downloadDisabled>>
       ELSE /\ download' = [download EXCEPT !["preview"] = DownloadRequest(pvFileId)]
            /\ downloadDisabled' = TRUE
            /\ UNCHANGED pvAlert
    /\ UNCHANGED <<apiVars, chatVars, backendVars, formVars, net, historyVars, sidebarVars, loginVars,
                   uploadVars, savedFiles, confirmAnswer, pvFileId, pvContent, pvLoading,
                   pvError, pvActiveTab, pvPage, pvFetches, relInfo>>
    /\ UNCHANGED pvBack

\* ChatHistory.handleDownload up to the fetch of downloadProcessedFile
HistoryHandleDownload(f) ==
    /\ route = "chat-history"
    /\ ~loading
    /\ f \in historyFiles
    /\ download["history"] = None
    /\ IF authUser = NoUser
       THEN /\ historyAlert' = "Failed to download file. Please try again."
            /\ UNCHANGED download
       ELSE /\ download' = [download EXCEPT !["history"] = DownloadRequest(f)]
            /\ UNCHANGED historyAlert
    /\ UNCHANGED <<apiVars, chatVars, backendVars, formVars, previewVars, net,
                   historyFiles, loading, listOutcome, listing, deletes, sidebarVars, loginVars,
                   uploadVars, savedFiles, downloadDisabled, confirmAnswer>>

\* GET /download-processed-file/{id}: the workbook for the owner of a stored
\* file, else an error response; or the request fails on the network
BackendDownload(c, outcome) ==
    /\ download[c] # None
    /\ download[c].state = "sent"
    /\ outcome \in {"ok", "failed", "neterr"}
    /\ outcome = "ok" =>
          \E u \in Users : /\ download[c].auth = Bearer(<<"idtoken", u>>)
                           /\ download[c].file \in Listing(u)
    /\ download' = [download EXCEPT ![c].state = outcome]
    /\ UNCHANGED <<apiVars, chatVars, backendVars, formVars, previewVars, net,
                   historyVars, sidebarVars, loginVars, uploadVars, savedFiles, downloadDisabled,
                   confirmAnswer>>

\* a plausible slip: the blob of any response is saved, `ok` or not
SavesAnyResponse(resp) == resp.state # "neterr"

\* the link is clicked only past `if (!response.ok) throw`
SavesFile(resp) == resp.state = "ok"

\* both handlers after the fetch: save through a link, or alert from the
\* catch block; Preview's finally block re-enables the button it finds
handleDownloadDone(c) ==
    /\ download[c] # None
    /\ download[c].state # "sent"
    /\ download' = [download EXCEPT ![c] = None]
    /\ IF SavesFile(download[c])
       THEN /\ savedFiles' = savedFiles \cup {[file |-> download[c].file,
                                              state |-> download[c].state]}
            /\ UNCHANGED <<pvAlert, historyAlert>>
       ELSE /\ UNCHANGED savedFiles
            /\ IF c = "preview"
               THEN /\ pvAlert' = "Failed to download file"
                    /\ UNCHANGED historyAlert
               ELSE /\ historyAlert' = "Failed to download file. Please try again."
                    /\ UNCHANGED pvAlert
    /\ downloadDisabled' = IF c = "preview" THEN FALSE ELSE downloadDisabled
    /\ UNCHANGED <<apiVars, chatVars, backendVars, formVars, net, historyFiles, loading,
                   listOutcome, listing, deletes, sidebarVars, loginVars, uploadVars, confirmAnswer,
                   pvFileId, pvContent, pvLoading, pvError, pvActiveTab, pvPage,
                   pvFetches, relInfo>>
    /\ UNCHANGED pvBack

\* two browser tabs submitting the processing form
NextForm ==
    \/ \E t \in Tabs : FormAuthLost(t)
    \/ \E t \in Tabs : handleSubmit(t)
    \/ \E t \in Tabs : handleSubmitUploaded(t)
    \/ \E t \in Tabs : handleSubmitProcessed(t)
    \/ \E t \in Tabs, ok \in BOOLEAN : BackendUpload(t, ok)
    \/ \E t \in Tabs, o \in {"ok", "noid", "fail"} : BackendProcess(t, o)
    \/ \E t \in Tabs : NetworkError(t)

SpecForm == Init /\ [][NextForm]_vars

\* one form: the Number of Relations control and the submission
OneTab == {"tab1"}

NextRelations ==
    \/ \E t \in OneTab : DecrementRelations(t)
    \/ \E t \in OneTab : IncrementRelations(t)
    \/ \E t \in OneTab, v \in TypedValues : TypeRelations(t, v)
    \/ \E t \in OneTab : ToggleDashboard(t)
    \/ \E t \in OneTab : FormAuthLost(t)
    \/ \E t \in OneTab : handleSubmit(t)
    \/ \E t \in OneTab : handleSubmitUploaded(t)
    \/ \E t \in OneTab : handleSubmitProcessed(t)
    \/ \E t \in OneTab, ok \in BOOLEAN : BackendUpload(t, ok)
    \/ \E t \in OneTab, o \in {"ok", "noid", "fail"} : BackendProcess(t, o)
    \/ \E t \in OneTab : NetworkError(t)

SpecRelations == Init /\ [][NextRelations]_vars

\* the preview page of one signed-in user, with uploads arriving from a form
NextPreview ==
    \/ \E u \in Users : handleLogin(u)
    \/ \E f \in PreviewUrls : OpenPreview(f)
    \/ \E to \in {"dashboard", "chat-history"} : Navigate(to)
    \/ \E q \in pvFetches : \E r \in PreviewResponses(q) : BackendGetProcessedData(q, r)
    \/ \E q \in pvFetches : PreviewFetchDone(q)
    \/ \E tab \in {"cleaned", "pivot", "dashboard"} : setActiveTab(tab)
    \/ PreviousPage
    \/ NextPage
    \/ handleProcess
    \/ \E o \in {"ok", "noid", "fail"} : BackendProcess(PreviewClient, o)
    \/ NetworkError(PreviewClient)
    \/ handleProcessDone
    \/ PreviewReload
    \/ \E t \in OneTab : handleSubmit(t)
    \/ \E t \in OneTab, ok \in BOOLEAN : BackendUpload(t, ok)

SpecPreview == Init /\ [][NextPreview]_vars

\* sign-in, logout, navigation and file selection
NextSession ==
    \/ \E u \in Users : handleLogin(u)
    \/ HeaderLogout
    \/ SidebarLogout
    \/ \E f \in FileIds \cup {NoFile} : OpenChat(f)
    \/ \E to \in {"dashboard", "chat-history"} : LeaveChat(to)
    \/ \E to \in {"dashboard", "chat-history"} : Navigate(to)
    \/ PageReload
    \/ \E f \in FileIds : HistoryDelete(f)
    \/ \E f \in PreviewUrls : OpenPreview(f)
    \/ \E q \in pvFetches : \E r \in PreviewResponses(q) : BackendGetProcessedData(q, r)
    \/ \E q \in pvFetches : PreviewFetchDone(q)
    \/ PreviewAIChat
    \/ \E f \in FileIds : handleFileSelect(f)
    \/ \E ok \in BOOLEAN : handleFileSelectFromId(ok)
    \/ handleFileDeselect
    \/ \E ok \in BOOLEAN : toggleFileList(ok)
    \/ \E f \in FileIds, ok \in BOOLEAN : handleDeleteFile(f, TRUE, ok)

SpecSession == Init /\ [][NextSession]_vars

\* one signed-in user asking questions in the chat panel, each sent after
\* the answer to the one before has been shown
NextAsk ==
    \/ \E u \in Users : handleLogin(u)
    \/ \E f \in FileIds \cup {NoFile} : OpenChat(f)
    \/ \E to \in {"dashboard", "chat-history"} : LeaveChat(to)
    \/ \E f \in FileIds : HistoryDelete(f)
    \/ \E f \in FileIds : handleFileSelect(f)
    \/ \E ok \in BOOLEAN : handleFileSelectFromId(ok)
    \/ handleFileDeselect
    \/ \E ok \in BOOLEAN : toggleFileList(ok)
    \/ \E t \in Inputs : setInputText(t)
    \/ asks = {} /\ handleSendMessage
    \/ \E a \in asks : \E r \in ChatResponses(a) : BackendChat(a, r)
    \/ \E a \in asks : handleSendMessageDone(a)

SpecAsk == Init /\ [][NextAsk]_vars

\* the listings of the history page and of the sidebar
NextLists ==
    \/ \E u \in Users : handleLogin(u)
    \/ OpenHistory
    \/ HistoryRefresh
    \/ \E i \in 1..MaxLists : \E r \in {ListFailure} \cup {ListSuccess(Listing(u)) : u \in Users} :
            BackendListFiles(i, r)
    \/ \E i \in 1..MaxLists : fetchFilesDone(i)
    \/ \E r \in {ListFailure} \cup {ListSuccess(Listing(u)) : u \in Users} : fetchRecentFiles(r)
    \/ \E f \in FileIds : HistoryDelete(f)

SpecLists == Init /\ [][NextLists]_vars

\* deleting files in the chat panel's file list and then on the history
\* page, which the user opens last
NextHistory ==
    \/ \E u \in Users : handleLogin(u)
    \/ OpenHistory
    \/ \E i \in 1..MaxLists : \E r \in {ListFailure} \cup {ListSuccess(Listing(u)) : u \in Users} :
            BackendListFiles(i, r)
    \/ \E i \in 1..MaxLists : fetchFilesDone(i)
    \/ \E f \in FileIds, answer \in BOOLEAN : handleDelete(f, answer)
    \/ \E d \in deletes : \E ok \in BOOLEAN : BackendDelete(d, ok)
    \/ \E d \in deletes : handleDeleteDone(d)
    \/ route = "dashboard" /\ OpenChat(NoFile)
    \/ LeaveChat("dashboard")
    \/ \E ok \in BOOLEAN : toggleFileList(ok)
    \/ \E f \in FileIds : handleFileSelect(f)
    \/ \E f \in FileIds, answer \in BOOLEAN, ok \in BOOLEAN : handleDeleteFile(f, answer, ok)

SpecHistory == Init /\ [][NextHistory]_vars

\* the upload box of the dashboard
NextUpload ==
    \/ \E u \in Users : handleLogin(u)
    \/ \E file \in PickedFiles : handleDrop(file)
    \/ \E file \in PickedFiles : handleFileInput(file)
    \/ \E outcome \in {"ok", "failed", "neterr"} : BackendUploadFile(outcome)
    \/ handleFileInputDone
    \/ removeFile

SpecUpload == Init /\ [][NextUpload]_vars

\* alice's requests and their continuations; the event loop runs every
\* continuation whose response has arrived, the backend owes no response
NextWaiting ==
    \/ handleLogin("alice")
    \/ OpenChat(NoFile)
    \/ \E ok \in BOOLEAN : toggleFileList(ok)
    \/ \E f \in FileIds : handleFileSelect(f)
    \/ \E t \in Inputs : setInputText(t)
    \/ handleSendMessage
    \/ \E a \in asks : \E r \in ChatResponses(a) : BackendChat(a, r)
    \/ \E a \in asks : handleSendMessageDone(a)
    \/ OpenHistory
    \/ \E i \in 1..MaxLists : \E r \in ListResponses("alice") : BackendListFiles(i, r)
    \/ \E i \in 1..MaxLists : fetchFilesDone(i)
    \/ \E f \in PreviewUrls : OpenPreview(f)
    \/ \E q \in pvFetches : \E r \in PreviewResponses(q) : BackendGetProcessedData(q, r)
    \/ \E q \in pvFetches : PreviewFetchDone(q)

ContinuationsRun ==
    /\ WF_vars(\E a \in asks : handleSendMessageDone(a))
    /\ WF_vars(\E i \in 1..MaxLists : fetchFilesDone(i))
    /\ WF_vars(\E q \in pvFetches : PreviewFetchDone(q))

SpecWaiting == Init /\ [][NextWaiting]_vars /\ ContinuationsRun

\* downloads from the history page and from the preview opened after it
NextDownload ==
    \/ \E u \in Users : handleLogin(u)
    \/ OpenHistory
    \/ \E i \in 1..MaxLists : \E r \in {ListFailure} \cup {ListSuccess(Listing(u)) : u \in Users} :
            BackendListFiles(i, r)
    \/ \E i \in 1..MaxLists : fetchFilesDone(i)
    \/ \E f \in FileIds : HistoryHandleDownload(f)
    \/ \E f \in PreviewUrls : OpenPreview(f)
    \/ \E q \in pvFetches : \E r \in PreviewResponses(q) : BackendGetProcessedData(q, r)
    \/ \E q \in pvFetches : PreviewFetchDone(q)
    \/ \E tab \in {"cleaned", "pivot", "dashboard"} : setActiveTab(tab)
    \/ PreviewHandleDownload
    \/ \E c \in DownloadPages, outcome \in {"ok", "failed", "neterr"} : BackendDownload(c, outcome)
    \/ \E c \in DownloadPages : handleDownloadDone(c)

SpecDownload == Init /\ [][NextDownload]_vars

\* the tabs of the preview across the files one mounted page shows
NextDashboard ==
    \/ \E u \in Users : handleLogin(u)
    \/ \E t \in OneTab : handleSubmit(t)
    \/ \E t \in OneTab : BackendUpload(t, TRUE)
    \/ \E f \in PreviewUrls : OpenPreview(f)
    \/ \E q \in pvFetches : \E r \in PreviewResponses(q) : BackendGetProcessedData(q, r)
    \/ \E q \in pvFetches : PreviewFetchDone(q)
    \/ \E tab \in {"cleaned", "pivot", "dashboard"} : setActiveTab(tab)
    \/ handleProcess
    \/ \E o \in {"ok", "fail"} : BackendProcess(PreviewClient, o)
    \/ handleProcessDone
    \/ PreviewBack

SpecDashboard == Init /\ [][NextDashboard]_vars

\* alice sending questions whenever the panel lets her
NextEnter ==
    \/ handleLogin("alice")
    \/ OpenChat(NoFile)
    \/ \E ok \in BOOLEAN : toggleFileList(ok)
    \/ \E f \in FileIds : handleFileSelect(f)
    \/ \E t \in Inputs : setInputText(t)
    \/ handleSendMessage
    \/ \E a \in asks : \E r \in ChatResponses(a) : BackendChat(a, r)
    \/ \E a \in asks : handleSendMessageDone(a)

SpecEnter == Init /\ [][NextEnter]_vars

\* alice's asks, deletes, downloads and re-process runs, each on the page
\* she opens from the dashboard
NextRetry ==
    \/ handleLogin("alice")
    \/ route = "dashboard" /\ OpenChat(NoFile)
    \/ toggleFileList(TRUE)
    \/ \E f \in FileIds : handleFileSelect(f)
    \/ \E t \in Inputs : setInputText(t)
    \/ handleSendMessage
    \/ \E a \in asks : \E r \in ChatResponses(a) : BackendChat(a, r)
    \/ \E a \in asks : handleSendMessageDone(a)
    \/ OpenHistory
    \/ \E i \in 1..MaxLists : \E r \in ListResponses("alice") : BackendListFiles(i, r)
    \/ \E i \in 1..MaxLists : fetchFilesDone(i)
    \/ \E f \in FileIds, answer \in BOOLEAN : handleDelete(f, answer)
    \/ \E d \in deletes : \E ok \in BOOLEAN : BackendDelete(d, ok)
    \/ \E d \in deletes : handleDeleteDone(d)
    \/ \E f \in FileIds : HistoryHandleDownload(f)
    \/ \E c \in DownloadPages, outcome \in {"ok", "failed", "neterr"} : BackendDownload(c, outcome)
    \/ \E c \in DownloadPages : handleDownloadDone(c)
    \/ \E f \in PreviewUrls : route = "dashboard" /\ OpenPreview(f)
    \/ \E q \in pvFetches : \E r \in PreviewResponses(q) : BackendGetProcessedData(q, r)
    \/ \E q \in pvFetches : PreviewFetchDone(q)
    \/ PreviewHandleDownload
    \/ handleProcess
    \/ \E o \in {"ok", "noid", "fail"} : BackendProcess(PreviewClient, o)
    \/ NetworkError(PreviewClient)
    \/ handleProcessDone

SpecRetry == Init /\ [][NextRetry]_vars

\* sign-in and sign-out from the pages of the layout, the firebase call
\* succeeding or failing
NextLogout ==
    \/ \E u \in Users : handleLogin(u)
    \/ \E o \in SignOutOutcomes : handleLogout(o)
    \/ \E f \in FileIds \cup {NoFile} : OpenChat(f)
    \/ \E to \in {"dashboard", "chat-history"} : LeaveChat(to)
    \/ \E to \in {"dashboard", "chat-history"} : Navigate(to)
    \/ PageReload
    \/ \E ok \in BOOLEAN : toggleFileList(ok)
    \/ \E f \in FileIds : handleFileSelect(f)
    \/ \E ok \in BOOLEAN : handleFileSelectFromId(ok)
    \/ handleFileDeselect

SpecLogout == Init /\ [][NextLogout]_vars

\* conversations of the chat panel across in-app navigation and reloads of
\* the document
NextMessages ==
    \/ \E u \in Users : handleLogin(u)
    \/ OpenChat(NoFile)
    \/ \E to \in {"dashboard", "chat-history"} : LeaveChat(to)
    \/ PageReload
    \/ \E f \in FileIds : handleFileSelect(f)
    \/ \E ok \in BOOLEAN : toggleFileList(ok)
    \/ \E t \in Inputs : setInputText(t)
    \/ asks = {} /\ handleSendMessage
    \/ \E a \in asks : \E r \in ChatResponses(a) : BackendChat(a, r)
    \/ \E a \in asks : handleSendMessageDone(a)

SpecMessages == Init /\ [][NextMessages]_vars

\* the helpers of firebase/auth.ts, each settling in every way the SDK call
\* can, with requests of the signed-in user in between
NextAuth ==
    \/ \E fn \in SignInHelpers, o \in SignInOutcomes : AuthSignIn(fn, o)
    \/ \E o \in SignOutOutcomes : AuthSignOut(o)
    \/ getUserProcessedFiles
    \/ \E f \in FileIds : downloadProcessedFile(f)

SpecAuth == Init /\ [][NextAuth]_vars

NextApi ==
    \/ \E u \in Users : ApiSignIn(u)
    \/ ApiSignOut
    \/ getAllFiles
    \/ getUserProcessedFiles
    \/ getRecentFiles
    \/ \E f \in FileIds : downloadProcessedFile(f)
    \/ \E f \in FileIds : deleteProcessedFile(f)
    \/ \E q \in Inputs, f \in FileIds : ApiAskChat(q, f)
    \/ \E f \in FileIds : PreviewFetchRequest(f)
    \/ \E f \in FileIds : PreviewDownloadRequest(f)
    \/ PreviewProcessRequest
    \/ FormProcessRequest
    \/ ProcessedFilePageFetch
    \/ ProcessedFilePageDownload

SpecApi == Init /\ [][NextApi]_vars

(***************************************************************************)
(* C2: once another user has signed in, the chat panel holds no selected   *)
(* file and no chat message that originated in the previous user's         *)
(* session.                                                                *)
(***************************************************************************)
C2_NoStateOfPreviousUser ==
    route = "chat" =>
        /\ selectedFile # None => selectedFile.session = authUser
        /\ \A i \in 1..Len(messages) : messages[i].session = authUser

(***************************************************************************)
(* C3: the selected file of the chat panel is none or one of the files of  *)
(* the signed-in user's own listing.                                       *)
(***************************************************************************)
C3_SelectedFileInOwnListing ==
    (route = "chat" /\ selectedFile # None) =>
        selectedFile.file_id \in Listing(authUser)

(***************************************************************************)
(* C4: the processing form navigates to a preview only after the upload    *)
(* and then process-data both succeeded and a file_id was returned; when   *)
(* the upload fails process-data is not sent; when either request fails    *)
(* there is no navigation, the user is alerted and isProcessing is false.  *)
(***************************************************************************)
C4_NavigatesOnlyWithFileId ==
    [][ \A t \in Tabs :
          /\ navigatedTo'[t] # navigatedTo[t] =>
                /\ net[t] # None
                /\ net[t].kind = "process"
                /\ net[t].state = "ok"
                /\ net[t].hasId
                /\ navigatedTo'[t] = net[t].file_id
          /\ (/\ formPc[t] \in {"uploading", "processing"}
              /\ formPc'[t] = "idle"
              /\ net[t].state # "ok") =>
                /\ net'[t] = None
                /\ navigatedTo'[t] = navigatedTo[t]
                /\ formAlert'[t] # NoAlert
                /\ ~isProcessing'[t]
      ]_vars

(***************************************************************************)
(* C5: the file a submission navigates to was derived from the file that   *)
(* this submission uploaded, however the submissions interleave.           *)
(***************************************************************************)
C5_ResultFromOwnUpload ==
    \A t \in Tabs :
        navigatedTo[t] \in Stored => store[navigatedTo[t]].source = uploadedFile(t)

(***************************************************************************)
(* C6: the number_of_relations sent with process-data is an integer in     *)
(* 1..20 after any sequence of decrements, increments and typed values.    *)
(***************************************************************************)
C6_RelationsInRange ==
    \A t \in Tabs :
        (net[t] # None /\ net[t].kind = "process") =>
            net[t].number_of_relations \in 1..20

C6_Witness ==
    \E t \in Tabs :
        /\ net[t] # None
        /\ net[t].kind = "process"
        /\ net[t].number_of_relations = 20

(***************************************************************************)
(* C7: whenever the preview shows a loaded file with requested_relations   *)
(* r >= 1 and generated_relations g < r, its pivot tab shows the relations *)
(* notice with the pair (r, g).                                            *)
(***************************************************************************)
C7_ShortfallNoticeShown ==
    \A f \in Stored :
        (/\ Screen = "main"
         /\ pvActiveTab = "pivot"
         /\ pvFileId = f
         /\ pvContent.of = f
         /\ pvFetches = {}
         /\ store[f].requested >= 1
         /\ store[f].generated < store[f].requested) =>
            /\ BannerShown
            /\ relInfo = [reqR |-> store[f].requested, genR |-> store[f].generated]

(***************************************************************************)
(* C8: a successful Re-Process answers with the id of a new stored file    *)
(* and the preview switches to that id and fetches it; no stored file is   *)
(* ever changed or removed by processing; a response without file_id       *)
(* leaves the preview on the current file and alerts the error.            *)
(***************************************************************************)
C8_ReprocessSwitchesToNewFile ==
    [][ /\ \A f \in Stored : f \in DOMAIN store' /\ store'[f] = store[f]
        /\ \A c \in Clients :
              (/\ net[c] # None /\ ~net[c].hasId
               /\ net'[c] # None /\ net'[c].hasId) =>
                    /\ net'[c].file_id \notin Stored
                    /\ net'[c].file_id \in DOMAIN store'
        /\ (handleProcessDone /\ route = "preview") =>
              LET resp == net[PreviewClient]
              IN /\ (resp.state = "ok" /\ resp.hasId) =>
                        /\ resp.file_id # pvFileId
                        /\ resp.file_id \in Stored
                        /\ pvFileId' = resp.file_id
                        /\ \E q \in pvFetches' : q.fileId = resp.file_id
                        /\ pvAlert' = pvAlert
                 /\ ~(resp.state = "ok" /\ resp.hasId) =>
                        /\ pvFileId' = pvFileId
                        /\ pvContent' = pvContent
                        /\ pvFetches' = pvFetches
                        /\ pvAlert' = ProcessAlert(resp)
                 /\ (resp.state = "ok" /\ ~resp.hasId) =>
                        pvAlert' = "No file_id returned"
      ]_vars

C8_Witness ==
    /\ route = "preview"
    /\ pvFileId \notin PreviewUrls
    /\ pvFileId \in Stored
    /\ pvContent.of \in FileIds
    /\ pvContent.of \in Stored
    /\ \E q \in pvFetches : q.fileId = pvFileId

(***************************************************************************)
(* C9: an ask request is issued only with a question that is non-empty     *)
(* after trimming and with the file_id of the selected file; a send with a *)
(* question but no selected file appends the warning and issues no         *)
(* request; a send with an empty question changes nothing.                 *)
(***************************************************************************)
C9_AskNeedsQuestionAndFile ==
    [][ /\ \A r \in requests' \ requests :
              r.kind = "ask" =>
                  /\ Trim(r.body) # <<>>
                  /\ selectedFile # None
                  /\ r.file = selectedFile.file_id
        /\ (handleSendMessage /\ Trim(inputText) # <<>> /\ selectedFile = None) =>
              /\ requests' = requests
              /\ asks' = asks
              /\ messages' = Append(messages, Message("ai", NoMark, SelectFileText, NoFile))
        /\ (handleSendMessage /\ Trim(inputText) = <<>>) => UNCHANGED vars
      ]_vars

C9_Witness ==
    /\ \E r \in requests : r.kind = "ask" /\ r.file = FileIdOf(selectedFile)
    /\ asks # {}
    /\ isLoading

(***************************************************************************)
(* C10 (as claimed): for each ask that completes exactly one AI message is *)
(* appended; on success its text is the backend's answer verbatim, on      *)
(* failure it carries the error detail and is marked as an error.          *)
(***************************************************************************)
AskCompletes(a) ==
    /\ a \in asks
    /\ a.resp # None
    /\ asks' = asks \ {a}
    /\ route' = "chat"

C10_AnswerVerbatim ==
    [][ \A a \in asks :
          AskCompletes(a) =>
              LET m == messages'[Len(messages')]
              IN /\ messages' = Append(messages, m)
                 /\ m.sender = "ai"
                 /\ a.resp.ok => m.mark = NoMark /\ m.text = a.resp.answer
                 /\ ~a.resp.ok => m.mark = WarnMark
      ]_vars

(***************************************************************************)
(* C10 (amended): for each ask that completes exactly one AI message is    *)
(* appended; on success its text is the backend's answer verbatim when the *)
(* answer is non-empty and the fixed text "No answer returned." when it is *)
(* empty; on failure it is marked as an error and carries the response's   *)
(* detail, else the error's message, else a fixed default text.            *)
(***************************************************************************)
C10_AnswerVerbatimOrPlaceholder ==
    [][ \A a \in asks :
          AskCompletes(a) =>
              LET m == messages'[Len(messages')]
              IN /\ messages' = Append(messages, m)
                 /\ m.sender = "ai"
                 /\ a.resp.ok =>
                       /\ m.mark = NoMark
                       /\ m.text = IF a.resp.answer # <<>> THEN a.resp.answer
                                   ELSE NoAnswerText
                 /\ ~a.resp.ok =>
                       /\ m.mark = WarnMark
                       /\ m.text = IF a.resp.detail # <<>> THEN a.resp.detail
                                   ELSE IF a.resp.message # <<>> THEN a.resp.message
                                   ELSE DefaultErrorText
      ]_vars

C10_Witness ==
    /\ route = "chat"
    /\ asks = {}
    /\ Len(messages) = 3
    /\ messages[2].sender = "user"
    /\ messages[3].sender = "ai"
    /\ messages[3].text = NoAnswerText

(***************************************************************************)
(* C1: every request that reads, downloads, deletes, lists, processes or   *)
(* asks carries the bearer token of the signed-in user, whichever          *)
(* component issued it.                                                    *)
(***************************************************************************)
ProtectedKinds == {"read", "download", "delete", "list", "process", "ask"}

C1_EveryRequestCarriesBearer ==
    \A r \in requests :
        r.kind \in ProtectedKinds =>
            \E u \in Users : r.auth = Bearer(<<"idtoken", u>>)

\* C11: a list or recent-files request that failed reaches the caller as an
\* outcome that differs from the outcome of a successful request that found
\* no files
C11_FailedListDistinguishable ==
    /\ (listOutcome # None /\ ~listOutcome.from.ok)
           => listOutcome.result # ListResult(ListSuccess({}))
    /\ (recentOutcome # None /\ ~recentOutcome.from.ok)
           => recentOutcome.result # ListResult(ListSuccess({}))

\* C12: a file that is not CSV, XLS or XLSX by type or extension, or that
\* is larger than the 50MB ceiling, is never sent to POST /upload and never
\* handed to the processing form
Accepted(file) == isValidFileType(file) /\ file.size <= SizeCeiling

C12_RejectedFileNeverHandedOn ==
    /\ handedFile # None => Accepted(handedFile)
    /\ fuUpload # None => Accepted(fuUpload.file)

\* C13: no loading flag stays true forever: an ask, a list request and a
\* get-processed-data request each complete or surface a timeout error even
\* when the backend never responds
AskPending == route = "chat" /\ isLoading
ListPending == route = "chat-history" /\ loading
PreviewPending == route = "preview" /\ pvLoading

C13_LoadingEnds ==
    /\ AskPending ~> ~AskPending
    /\ ListPending ~> ~ListPending
    /\ PreviewPending ~> ~PreviewPending

\* C14: a delete request is sent only after the user confirmed the prompt
\* for that file; a declined prompt and a failed delete leave the displayed
\* lists and the chat's selected file as they were
C14_Step ==
    /\ \A d \in deletes' \ deletes :
           d.resp = "sent" =>
               /\ confirmAnswer' # confirmAnswer
               /\ confirmAnswer'.answer
               /\ confirmAnswer'.page = "history"
               /\ confirmAnswer'.file = d.fileId
    /\ (store' # store /\ deletes' = deletes) =>
           /\ confirmAnswer' # confirmAnswer
           /\ confirmAnswer'.answer
           /\ confirmAnswer'.page = "chat"
           /\ store' = StoreWithout(confirmAnswer'.file)
    /\ (confirmAnswer' # confirmAnswer /\ ~confirmAnswer'.answer) =>
           UNCHANGED <<historyFiles, processedFiles, selectedFile, lsSelectedFile,
                       store, deletes>>
    /\ (confirmAnswer' # confirmAnswer /\ confirmAnswer'.page = "chat" /\ store' = store) =>
           UNCHANGED <<processedFiles, selectedFile, lsSelectedFile>>
    /\ \A d \in deletes \ deletes' :
           d.resp = "failed" =>
               UNCHANGED <<historyFiles, processedFiles, selectedFile, lsSelectedFile>>

C14_DeleteOnlyWhenConfirmed == [][C14_Step]_vars

\* a failed delete has been reported and the next prompt was declined, with
\* files on display and a file selected for the chat
C14_Witness ==
    /\ route = "chat-history"
    /\ historyAlert = "Failed to delete file"
    /\ confirmAnswer # None
    /\ ~confirmAnswer.answer
    /\ confirmAnswer.page = "history"
    /\ historyFiles # {}
    /\ lsSelectedFile # None

\* C19: once every delete of the history page has completed, the list it
\* displays (loaded by a successful list request) holds none of the deleted
\* files and every file of the user that was not deleted
C19_ListWithoutDeletedFiles ==
    (/\ route = "chat-history"
     /\ listing = <<>>
     /\ deletes = {}
     /\ listOutcome # None
     /\ listOutcome.from.ok)
        => historyFiles = Listing(authUser)

\* C15: a file is saved only out of a successful download response; when a
\* download ends without success nothing is saved and the page that asked
\* shows an alert; the preview's download button is disabled only while its
\* request is in flight
C15_Step ==
    \A c \in DownloadPages :
        (download[c] # None /\ download'[c] = None /\ download[c].state # "ok") =>
            /\ savedFiles' = savedFiles
            /\ IF c = "preview" THEN pvAlert' = "Failed to download file"
               ELSE historyAlert' = "Failed to download file. Please try again."

C15_FailedDownloadSavesNothing ==
    /\ [][C15_Step]_vars
    /\ [](\A s \in savedFiles : s.state = "ok")
    /\ [](downloadDisabled => download["preview"] # None)

\* a failed download of the preview has been reported and the button is
\* enabled again, after an earlier download saved a file
C15_Witness ==
    /\ Screen = "main"
    /\ pvAlert = "Failed to download file"
    /\ download["preview"] = None
    /\ ~downloadDisabled
    /\ savedFiles # {}

\* C16: the Dashboard tab is offered and dashboard content is shown only
\* while the file whose data the preview holds has has_dashboard true in the
\* record store
C16_DashboardOnlyWithWorkbook ==
    (DashboardTabOffered \/ DashboardContentShown) =>
        /\ pvContent.of \in Stored
        /\ store[pvContent.of].has_dashboard

\* a file without dashboard is on display while the Dashboard tab chosen
\* for the file shown before it is still the active tab
C16_Witness ==
    /\ Screen = "main"
    /\ pvActiveTab = "dashboard"
    /\ pvContent.of \in Stored
    /\ ~store[pvContent.of].has_dashboard
    /\ ~DashboardContentShown

\* C18: while a file is selected in the chat panel, every message of the
\* conversation that carries a fileId carries the id of that file
C18_MessagesOfSelectedFile ==
    (route = "chat" /\ selectedFile # None) =>
        \A i \in 1..Len(messages) :
            messages[i].fileId # NoFile => messages[i].fileId = selectedFile.file_id

\* C20: in the mounted chat panel isLoading is true exactly while an ask
\* is in flight, and no second ask is in flight beside it
C20_OneAskWhileLoading ==
    route = "chat" =>
        /\ isLoading <=> asks # {}
        /\ Cardinality(asks) <= 1

\* C17: each step issues at most one ask and one delete; the step that
\* handles the response to an ask, a delete, a download or a re-process run
\* issues no request of that kind; an ask is issued only by the step that
\* takes the typed question, a delete only by the step that takes the
\* answer to the prompt
NewAsks == {a \in asks' \ asks : a.resp = None}
NewDeletes == {d \in deletes' \ deletes : d.resp = "sent"}
NewDownload(c) ==
    download'[c] # None /\ download'[c] # download[c] /\ download'[c].state = "sent"
NewProcess ==
    /\ net'[PreviewClient] # None
    /\ net'[PreviewClient] # net[PreviewClient]
    /\ net'[PreviewClient].state = "sent"

C17_Step ==
    /\ Cardinality(NewAsks) <= 1
    /\ Cardinality(NewDeletes) <= 1
    /\ (\E a \in asks \ asks' : a.resp # None) => NewAsks = {}
    /\ (\E d \in deletes \ deletes' : d.resp # "sent") => NewDeletes = {}
    /\ \A c \in DownloadPages : download[c] # None => ~NewDownload(c)
    /\ net[PreviewClient] # None => ~NewProcess
    /\ NewAsks # {} => ~IsBlank(inputText) /\ inputText' = <<>>
    /\ NewDeletes # {} => confirmAnswer' # confirmAnswer

C17_NoRequestReissued == [][C17_Step]_vars

\* a failed delete has been reported on the history page and no request
\* is in flight
C17_Witness ==
    /\ route = "chat-history"
    /\ historyAlert = "Failed to delete file"
    /\ confirmAnswer # None
    /\ confirmAnswer.answer
    /\ deletes = {}
    /\ \A c \in DownloadPages : download[c] = None

\* C21: once no get-processed-data request of the mounted preview is in
\* flight, the data, pivot tables and dashboard flag the main screen displays
\* are those of the file_id in the URL, whatever order the responses came in
C21_DisplayedOfCurrentFile ==
    (Screen = "main" /\ pvFetches = {}) => pvContent.of = pvFileId

\* C22: when the mounted preview handles a successful response for the
\* file_id in its URL and no other load is in flight, it shows no error
\* screen and holds that file's data
C22_Step ==
    \A q \in pvFetches \ pvFetches' :
        (/\ route' = "preview"
         /\ q.resp # None
         /\ q.resp.ok
         /\ q.fileId = pvFileId'
         /\ pvFetches' = {}) =>
            /\ Screen' # "error"
            /\ pvContent'.of = q.fileId

C22_SuccessfulLoadShowsData == [][C22_Step]_vars

\* C23: whenever the preview displays non-empty cleaned data of n rows, the
\* page index p satisfies 0 <= p and p * 25 < n
C23_PageWithinData ==
    PaginationShown => (0 <= pvPage /\ pvPage * PageSize < pvContent.rows)

\* C24: after a logout handler has run, the user is unauthenticated,
\* localStorage 'user' is absent and the router shows /login, whether the
\* sign-out call succeeded or failed
C24_Step ==
    (lsUser # NoUser /\ lsUser' = NoUser) =>
        /\ ~isAuthenticated'
        /\ route' = "login"

C24_LoggedOutAfterLogout == [][C24_Step]_vars

\* C25: with no upload of FileUpload in flight, the file the Dashboard page
\* holds for the processing form and the file FileUpload shows as uploaded
\* are both absent or the same file
C25_FormFileIsShownFile ==
    fuUpload = None =>
        \/ fuFile = None /\ handedFile = None
        \/ fuFile # None /\ handedFile = fuFile

\* C26: a form is processing exactly while its submission is in progress,
\* so isProcessing is false after every way a submission ends; an upload is
\* sent only by a form that is not processing, and a process-data request
\* only as the next step of the submission whose upload succeeded
C26_Step ==
    \A t \in Tabs :
        (net'[t] # net[t] /\ net'[t] # None /\ net'[t].state = "sent") =>
            IF net'[t].kind = "upload"
            THEN ~isProcessing[t] /\ isProcessing'[t]
            ELSE /\ net[t] # None
                 /\ net[t].kind = "upload"
                 /\ net[t].state = "ok"
                 /\ isProcessing[t]
                 /\ isProcessing'[t]

C26_OneSubmissionAtATime ==
    /\ [](\A t \in Tabs : /\ isProcessing[t] <=> formPc[t] # "idle"
                          /\ isProcessing[t] <=> net[t] # None)
    /\ [][C26_Step]_vars

\* one form has its process-data request in flight while the other has
\* ended a submission with a failure and is no longer processing
C26_Witness ==
    \E t, u \in Tabs :
        /\ isProcessing[t]
        /\ net[t] # None
        /\ net[t].kind = "process"
        /\ net[t].state = "sent"
        /\ ~isProcessing[u]
        /\ formAlert[u] \in {"Error processing file.", "Failed to process file"}

\* C27: when the chat panel is entered by in-app navigation, its message
\* list becomes exactly the default greeting and localStorage 'chatMessages'
\* holds only that greeting; while the panel is mounted the list is never
\* empty and localStorage 'chatMessages' equals it
\* what the panel renders of a message
Shown(m) == [sender |-> m.sender, mark |-> m.mark, text |-> m.text, fileId |-> m.fileId]

GreetingOnly(ms) == Len(ms) = 1 /\ Shown(ms[1]) = Shown(defaultMessage)

C27_Step ==
    (route # "chat" /\ route' = "chat") =>
        /\ GreetingOnly(messages')
        /\ GreetingOnly(lsChatMessages')

C27_FreshChatOnNavigation ==
    /\ [](route = "chat" => (messages # <<>> /\ lsChatMessages = messages))
    /\ [][C27_Step]_vars

====
